---- MODULE Spec2Model ----
(***************************************************************************)
(* A model of the chess rules engine: the board state of ChessBoard, the   *)
(* move executor (makeMove / undoMove), the per-square pseudo-legal move   *)
(* generators, the attack detector and the legal move filter.              *)
(*                                                                         *)
(* Conventions.  A TypeScript `null` piece is NoPiece, a `null` square is  *)
(* NoSquare, an absent optional field of a Move is "none" (promotion,      *)
(* castle) or FALSE (enPassant, isCapture).  A function that can throw     *)
(* returns a record [threw, err, board]: board is the board as the throw   *)
(* leaves it.                                                              *)
(***************************************************************************)
EXTENDS Integers, Sequences, FiniteSets, TLC

VARIABLES squares, history, sideToMove, castlingRights, enPassantTarget,
          halfMoveClock, fullMoveNumber, lastCall, before, scan

vars == <<squares, history, sideToMove, castlingRights, enPassantTarget,
          halfMoveClock, fullMoveNumber, lastCall, before, scan>>

----------------------------------------------------------------------------
(* Bounds of the model *)

\* the deepest undo history explored under Spec (legal play)
MaxDepth == 6

\* the deepest undo history explored under SpecAny (any move a caller passes)
MaxAnyDepth == 2

----------------------------------------------------------------------------
(* Coordinates, pieces, moves *)

RANKS == <<0, 1, 2, 3, 4, 5, 6, 7>>

FILES == <<0, 1, 2, 3, 4, 5, 6, 7>>

Coord == 0..7

NoPiece == [type |-> "none", colour |-> "none"]

Piece(type, colour) == [type |-> type, colour |-> colour]

NoSquare == [rank |-> -1, file |-> -1]

Sq(r, f) == [rank |-> r, file |-> f]

\* a Move object with every optional field given
MoveOf(fr, ff, tr, tf, promotion, castle, enPassant, isCapture) ==
    [fromRank |-> fr, fromFile |-> ff, toRank |-> tr, toFile |-> tf,
     promotion |-> promotion, castle |-> castle, enPassant |-> enPassant,
     isCapture |-> isCapture]

\* { fromRank, fromFile, toRank, toFile }
PlainMove(fr, ff, tr, tf) == MoveOf(fr, ff, tr, tf, "none", "none", FALSE, FALSE)

\* { fromRank, fromFile, toRank, toFile, isCapture: true }
CaptureMove(fr, ff, tr, tf) == MoveOf(fr, ff, tr, tf, "none", "none", FALSE, TRUE)

NoMove == MoveOf(-1, -1, -1, -1, "none", "none", FALSE, FALSE)

Opposite(colour) == IF colour = "white" THEN "black" ELSE "white"

----------------------------------------------------------------------------
(* Construction *)

backRank == <<"rook", "knight", "bishop", "queen", "king", "bishop", "knight", "rook">>

createEmptyBoard == [r \in Coord |-> [f \in Coord |-> NoPiece]]

\* an initial position with the kings on file 3 and the queens on file 4
setupKingsOnQueensFile ==
    [r \in Coord |-> [f \in Coord |->
        CASE r = 1 -> Piece("pawn", "white")
          [] r = 6 -> Piece("pawn", "black")
          [] r = 0 -> Piece(backRank[8 - f], "white")
          [] r = 7 -> Piece(backRank[8 - f], "black")
          [] OTHER -> NoPiece]]

\* the constructor: createEmptyBoard, then setUpPawns and setUpBackRanks
setupInitialPosition ==
    [r \in Coord |-> [f \in Coord |->
        CASE r = 1 -> Piece("pawn", "white")
          [] r = 6 -> Piece("pawn", "black")
          [] r = 0 -> Piece(backRank[f + 1], "white")
          [] r = 7 -> Piece(backRank[f + 1], "black")
          [] OTHER -> createEmptyBoard[r][f]]]

InitialCastlingRights == [whiteK |-> TRUE, whiteQ |-> TRUE, blackK |-> TRUE, blackQ |-> TRUE]

\* the fields of a new ChessBoard
NewBoard ==
    [squares |-> setupInitialPosition,
     history |-> <<>>,
     sideToMove |-> "white",
     castlingRights |-> InitialCastlingRights,
     enPassantTarget |-> NoSquare,
     halfMoveClock |-> 0,
     fullMoveNumber |-> 1]

\* the fields of a Square, in the order its constructor takes them
Square(file, rank, piece) == [file |-> file, rank |-> rank, piece |-> piece]

\* the Square createEmptyBoard pushes onto the row of rank at the index file
emptySquare(rank, file) == Square(rank, file, NoPiece)

\* the Square object stored at squares[rank][file]: its file and rank are those
\* of its construction, only its piece is ever assigned
squareObject(b, rank, file) == [emptySquare(rank, file) EXCEPT !.piece = b.squares[rank][file]]

\* Square.coord, as the pair of the file letter and the rank number
coord(square) == <<<<"a", "b", "c", "d", "e", "f", "g", "h">>[square.file + 1], square.rank + 1>>

\* Square.isLight
isLight(square) == (square.file + square.rank) % 2 = 1

----------------------------------------------------------------------------
(* Low-level helpers *)

getSquare(b, r, f) == b.squares[r][f]

inBounds(r, f) == r >= 0 /\ r < 8 /\ f >= 0 /\ f < 8

isEmpty(b, r, f) == IF ~inBounds(r, f) THEN FALSE ELSE getSquare(b, r, f) = NoPiece

isEnemy(b, r, f, colour) ==
    IF ~inBounds(r, f) THEN FALSE
    ELSE LET p == getSquare(b, r, f) IN p # NoPiece /\ p.colour # colour

canUndo(b) == Len(b.history) > 0

----------------------------------------------------------------------------
(* Move execution *)

Thrown(err, b) == [threw |-> TRUE, err |-> err, board |-> b]

Returned(b) == [threw |-> FALSE, err |-> "none", board |-> b]

isA1(r, f) == r = 0 /\ f = 0
isH1(r, f) == r = 0 /\ f = 7
isA8(r, f) == r = 7 /\ f = 0
isH8(r, f) == r = 7 /\ f = 7

\* the snapshot makeMove takes before it touches the board
UndoSnapshot(b, move, piece) ==
    [move |-> move,
     movedPiece |-> piece,
     capturedPiece |-> NoPiece,
     capturedSquare |-> NoSquare,
     sideToMoveBefore |-> b.sideToMove,
     castlingRightsBefore |-> b.castlingRights,
     enPassantTargetBefore |-> b.enPassantTarget,
     halfmoveClockBefore |-> b.halfMoveClock,
     fullmoveNumberBefore |-> b.fullMoveNumber,
     rookFrom |-> NoSquare,
     rookTo |-> NoSquare,
     rookPiece |-> NoPiece,
     promotedTo |-> NoPiece]

\* a makeMove that gives a right back to a rook that returns to its corner
RightsAfterMoveRookReturns(rights, move, piece, capturedPiece) ==
    LET fr == move.fromRank
        ff == move.fromFile
        tr == move.toRank
        tf == move.toFile
        kingW == piece.type = "king" /\ piece.colour = "white"
        kingB == piece.type = "king" /\ piece.colour = "black"
        rookW == piece.type = "rook" /\ piece.colour = "white"
        rookB == piece.type = "rook" /\ piece.colour = "black"
        capW == capturedPiece.type = "rook" /\ capturedPiece.colour = "white"
        capB == capturedPiece.type = "rook" /\ capturedPiece.colour # "white"
    IN [whiteK |-> \/ rookW /\ isH1(tr, tf)
                   \/ rights.whiteK /\ ~kingW /\ ~(rookW /\ isH1(fr, ff)) /\ ~(capW /\ isH1(tr, tf)),
        whiteQ |-> \/ rookW /\ isA1(tr, tf)
                   \/ rights.whiteQ /\ ~kingW /\ ~(rookW /\ isA1(fr, ff)) /\ ~(capW /\ isA1(tr, tf)),
        blackK |-> \/ rookB /\ isH8(tr, tf)
                   \/ rights.blackK /\ ~kingB /\ ~(rookB /\ isH8(fr, ff)) /\ ~(capB /\ isH8(tr, tf)),
        blackQ |-> \/ rookB /\ isA8(tr, tf)
                   \/ rights.blackQ /\ ~kingB /\ ~(rookB /\ isA8(fr, ff)) /\ ~(capB /\ isA8(tr, tf))]

\* a makeMove that leaves the rights of a king that moves
RightsAfterMoveKingKeeps(rights, move, piece, capturedPiece) ==
    LET fr == move.fromRank
        ff == move.fromFile
        tr == move.toRank
        tf == move.toFile
        rookW == piece.type = "rook" /\ piece.colour = "white"
        rookB == piece.type = "rook" /\ piece.colour = "black"
        capW == capturedPiece.type = "rook" /\ capturedPiece.colour = "white"
        capB == capturedPiece.type = "rook" /\ capturedPiece.colour # "white"
    IN [whiteK |-> rights.whiteK /\ ~(rookW /\ isH1(fr, ff)) /\ ~(capW /\ isH1(tr, tf)),
        whiteQ |-> rights.whiteQ /\ ~(rookW /\ isA1(fr, ff)) /\ ~(capW /\ isA1(tr, tf)),
        blackK |-> rights.blackK /\ ~(rookB /\ isH8(fr, ff)) /\ ~(capB /\ isH8(tr, tf)),
        blackQ |-> rights.blackQ /\ ~(rookB /\ isA8(fr, ff)) /\ ~(capB /\ isA8(tr, tf))]

\* a makeMove that forgets the rook captured on its corner
RightsAfterMoveNoCapture(rights, move, piece, capturedPiece) ==
    LET fr == move.fromRank
        ff == move.fromFile
        kingW == piece.type = "king" /\ piece.colour = "white"
        kingB == piece.type = "king" /\ piece.colour = "black"
        rookW == piece.type = "rook" /\ piece.colour = "white"
        rookB == piece.type = "rook" /\ piece.colour = "black"
    IN [whiteK |-> rights.whiteK /\ ~kingW /\ ~(rookW /\ isH1(fr, ff)),
        whiteQ |-> rights.whiteQ /\ ~kingW /\ ~(rookW /\ isA1(fr, ff)),
        blackK |-> rights.blackK /\ ~kingB /\ ~(rookB /\ isH8(fr, ff)),
        blackQ |-> rights.blackQ /\ ~kingB /\ ~(rookB /\ isA8(fr, ff))]

\* makeMove, section d: the castling rights after the move
RightsAfterMove(rights, move, piece, capturedPiece) ==
    LET fr == move.fromRank
        ff == move.fromFile
        tr == move.toRank
        tf == move.toFile
        kingW == piece.type = "king" /\ piece.colour = "white"
        kingB == piece.type = "king" /\ piece.colour = "black"
        rookW == piece.type = "rook" /\ piece.colour = "white"
        rookB == piece.type = "rook" /\ piece.colour = "black"
        capW == capturedPiece.type = "rook" /\ capturedPiece.colour = "white"
        capB == capturedPiece.type = "rook" /\ capturedPiece.colour # "white"
    IN [whiteK |-> rights.whiteK /\ ~kingW /\ ~(rookW /\ isH1(fr, ff)) /\ ~(capW /\ isH1(tr, tf)),
        whiteQ |-> rights.whiteQ /\ ~kingW /\ ~(rookW /\ isA1(fr, ff)) /\ ~(capW /\ isA1(tr, tf)),
        blackK |-> rights.blackK /\ ~kingB /\ ~(rookB /\ isH8(fr, ff)) /\ ~(capB /\ isH8(tr, tf)),
        blackQ |-> rights.blackQ /\ ~kingB /\ ~(rookB /\ isA8(fr, ff)) /\ ~(capB /\ isA8(tr, tf))]

\* an en passant target put on the square the pawn lands on
TargetAfterMoveOnDestination(target, move, piece) ==
    LET dr == move.toRank - move.fromRank IN
    IF piece.type = "pawn" /\ (dr = 2 \/ dr = -2)
    THEN Sq(move.toRank, move.fromFile)
    ELSE target

\* makeMove, section e: the en passant target after the move; target is the
\* field as the earlier sections left it
TargetAfterMove(target, move, piece) ==
    LET dr == move.toRank - move.fromRank IN
    IF piece.type = "pawn" /\ (dr = 2 \/ dr = -2)
    THEN Sq((move.fromRank + move.toRank) \div 2, move.fromFile)
    ELSE target

\* a half-move clock that only a pawn move resets
ClockAfterMovePawnOnly(clock, piece, capturedPiece) ==
    IF piece.type = "pawn" THEN 0 ELSE clock + 1

\* makeMove, section f: the half-move clock after the move
ClockAfterMove(clock, piece, capturedPiece) ==
    LET isCapture == capturedPiece # NoPiece
        isPawnMove == piece.type = "pawn"
    IN IF isPawnMove \/ isCapture THEN 0 ELSE clock + 1

\* a makeMove that counts a full move after either side's move
NumberAfterMoveEitherSide(number, side) == number + 1

\* makeMove, section f: the full-move number after the move
NumberAfterMove(number, side) == IF side = "black" THEN number + 1 ELSE number

\* a makeMove that promotes white pawns only
isPromotionWhiteOnly(move, piece) ==
    /\ piece.type = "pawn"
    /\ move.promotion # "none"
    /\ piece.colour = "white" /\ move.toRank = 7

\* makeMove, section b: whether the move is a pawn promotion
isPromotion(move, piece) ==
    /\ piece.type = "pawn"
    /\ move.promotion # "none"
    /\ \/ (piece.colour = "white" /\ move.toRank = 7)
       \/ (piece.colour = "black" /\ move.toRank = 0)

\* a makeMove that leaves the turn with the side that moved
SideAfterMoveSame(side) == side

\* makeMove, section f: the side to move after the move
SideAfterMove(side) == Opposite(side)

\* makeMove, sections b to f: from the vacated source to the pushed record.
\* b is the board, sq0 the grid and undo0 the record as section a leaves them.
ApplyMove(b, move, piece, sq0, undo0) ==
    LET fr == move.fromRank
        ff == move.fromFile
        tr == move.toRank
        tf == move.toFile
        sq1 == [sq0 EXCEPT ![fr][ff] = NoPiece]
        promoted == Piece(move.promotion, piece.colour)
        sq2 == [sq1 EXCEPT ![tr][tf] = IF isPromotion(move, piece) THEN promoted ELSE piece]
        undo1 == IF isPromotion(move, piece) THEN [undo0 EXCEPT !.promotedTo = promoted]
                 ELSE undo0
        homeRank == IF piece.colour = "white" THEN 0 ELSE 7
        rookFrom == IF move.castle = "K" THEN Sq(homeRank, 7) ELSE Sq(homeRank, 0)
        rookTo == IF move.castle = "K" THEN Sq(homeRank, 5) ELSE Sq(homeRank, 3)
        rookPiece == sq2[rookFrom.rank][rookFrom.file]
        sq3 == IF move.castle = "none" THEN sq2
               ELSE [[sq2 EXCEPT ![rookFrom.rank][rookFrom.file] = NoPiece]
                          EXCEPT ![rookTo.rank][rookTo.file] = rookPiece]
        undo2 == IF move.castle = "none" THEN undo1
                 ELSE [undo1 EXCEPT !.rookFrom = rookFrom, !.rookTo = rookTo,
                                    !.rookPiece = rookPiece]
    IN [squares |-> sq3,
        history |-> Append(b.history, undo2),
        sideToMove |-> SideAfterMove(b.sideToMove),
        castlingRights |-> RightsAfterMove(b.castlingRights, move, piece, undo2.capturedPiece),
        enPassantTarget |-> TargetAfterMove(b.enPassantTarget, move, piece),
        halfMoveClock |-> ClockAfterMove(b.halfMoveClock, piece, undo2.capturedPiece),
        fullMoveNumber |-> NumberAfterMove(b.fullMoveNumber, b.sideToMove)]

\* a makeMove that does not clear the en passant target
ClearTargetNot(b) == b

\* makeMove, the line that clears the en passant target before the capture is resolved
ClearTarget(b) == [b EXCEPT !.enPassantTarget = NoSquare]

\* a makeMove that does not check whose turn it is
sourceErrorNoTurn(b, piece) ==
    IF piece = NoPiece THEN "No piece on source square." ELSE "none"

\* makeMove's checks of the source square: the error they throw, or "none"
sourceError(b, piece) ==
    IF piece = NoPiece THEN "No piece on source square."
    ELSE IF piece.colour # b.sideToMove THEN "Not your turn."
    ELSE "none"

\* a makeMove that takes any enemy piece en passant
noEnemyPawnOfAnyType(victim, piece) ==
    victim = NoPiece \/ victim.colour = piece.colour

\* makeMove, section a: the check of the square behind an en passant destination
noEnemyPawn(victim, piece) ==
    victim = NoPiece \/ victim.type # "pawn" \/ victim.colour = piece.colour

makeMove(b, move) ==
    LET piece == getSquare(b, move.fromRank, move.fromFile)
        toPiece == getSquare(b, move.toRank, move.toFile)
        undo == UndoSnapshot(b, move, piece)
        b1 == ClearTarget(b)
        capRank == IF piece.colour = "white" THEN move.toRank - 1 ELSE move.toRank + 1
        capFile == move.toFile
    IN
    IF sourceError(b, piece) # "none" THEN Thrown(sourceError(b, piece), b)
    ELSE IF move.enPassant
    THEN IF toPiece # NoPiece
         THEN Thrown("Invalid en passant: target square is not empty", b1)
         ELSE IF capRank \notin Coord
         THEN Thrown("TypeError", b1)     \* this.squares[capRank] is undefined
         ELSE LET victim == getSquare(b, capRank, capFile) IN
              IF noEnemyPawn(victim, piece)
              THEN Thrown("Invalid en passant: no enemy pawn to capture", b1)
              ELSE Returned(ApplyMove(b1, move, piece,
                                      [b.squares EXCEPT ![capRank][capFile] = NoPiece],
                                      [undo EXCEPT !.capturedPiece = victim,
                                                   !.capturedSquare = Sq(capRank, capFile)]))
    ELSE Returned(ApplyMove(b1, move, piece, b.squares,
                            [undo EXCEPT !.capturedPiece = toPiece]))

\* an undoMove that puts every captured piece back on the destination square
restoreCapturedOnDestination(sq, undo) ==
    IF undo.capturedPiece # NoPiece
    THEN [sq EXCEPT ![undo.move.toRank][undo.move.toFile] = undo.capturedPiece]
    ELSE sq

\* undoMove, section c: the captured piece goes back to its recorded square
restoreCaptured(sq, undo) ==
    IF undo.capturedPiece # NoPiece
    THEN IF undo.capturedSquare # NoSquare
         THEN [sq EXCEPT ![undo.capturedSquare.rank][undo.capturedSquare.file] =
                             undo.capturedPiece]
         ELSE [sq EXCEPT ![undo.move.toRank][undo.move.toFile] = undo.capturedPiece]
    ELSE sq

\* an undoMove whose record shares the live castling rights object, so that
\* nothing is restored of them
popAndRestoreLiveRights(b) ==
    LET undo == b.history[Len(b.history)]
        move == undo.move
        sq0 == b.squares
        sq1 == IF undo.rookFrom # NoSquare /\ undo.rookTo # NoSquare
               THEN [[sq0 EXCEPT ![undo.rookTo.rank][undo.rookTo.file] = NoPiece]
                          EXCEPT ![undo.rookFrom.rank][undo.rookFrom.file] = undo.rookPiece]
               ELSE sq0
        sq2 == [[sq1 EXCEPT ![move.toRank][move.toFile] = NoPiece]
                     EXCEPT ![move.fromRank][move.fromFile] = undo.movedPiece]
        sq3 == restoreCaptured(sq2, undo)
    IN [squares |-> sq3,
        history |-> SubSeq(b.history, 1, Len(b.history) - 1),
        sideToMove |-> undo.sideToMoveBefore,
        castlingRights |-> b.castlingRights,
        enPassantTarget |-> undo.enPassantTargetBefore,
        halfMoveClock |-> undo.halfmoveClockBefore,
        fullMoveNumber |-> undo.fullmoveNumberBefore]

\* an undoMove that leaves the full-move number as it is
popAndRestoreKeepsNumber(b) ==
    LET undo == b.history[Len(b.history)]
        move == undo.move
        sq0 == b.squares
        sq1 == IF undo.rookFrom # NoSquare /\ undo.rookTo # NoSquare
               THEN [[sq0 EXCEPT ![undo.rookTo.rank][undo.rookTo.file] = NoPiece]
                          EXCEPT ![undo.rookFrom.rank][undo.rookFrom.file] = undo.rookPiece]
               ELSE sq0
        sq2 == [[sq1 EXCEPT ![move.toRank][move.toFile] = NoPiece]
                     EXCEPT ![move.fromRank][move.fromFile] = undo.movedPiece]
        sq3 == restoreCaptured(sq2, undo)
    IN [squares |-> sq3,
        history |-> SubSeq(b.history, 1, Len(b.history) - 1),
        sideToMove |-> undo.sideToMoveBefore,
        castlingRights |-> undo.castlingRightsBefore,
        enPassantTarget |-> undo.enPassantTargetBefore,
        halfMoveClock |-> undo.halfmoveClockBefore,
        fullMoveNumber |-> b.fullMoveNumber]

\* an undoMove that leaves the en passant target as it is
popAndRestoreKeepsTarget(b) ==
    LET undo == b.history[Len(b.history)]
        move == undo.move
        sq0 == b.squares
        sq1 == IF undo.rookFrom # NoSquare /\ undo.rookTo # NoSquare
               THEN [[sq0 EXCEPT ![undo.rookTo.rank][undo.rookTo.file] = NoPiece]
                          EXCEPT ![undo.rookFrom.rank][undo.rookFrom.file] = undo.rookPiece]
               ELSE sq0
        sq2 == [[sq1 EXCEPT ![move.toRank][move.toFile] = NoPiece]
                     EXCEPT ![move.fromRank][move.fromFile] = undo.movedPiece]
        sq3 == restoreCaptured(sq2, undo)
    IN [squares |-> sq3,
        history |-> SubSeq(b.history, 1, Len(b.history) - 1),
        sideToMove |-> undo.sideToMoveBefore,
        castlingRights |-> undo.castlingRightsBefore,
        enPassantTarget |-> b.enPassantTarget,
        halfMoveClock |-> undo.halfmoveClockBefore,
        fullMoveNumber |-> undo.fullmoveNumberBefore]

\* undoMove past its guard: the last record is popped and everything restored
popAndRestore(b) ==
    LET undo == b.history[Len(b.history)]
        move == undo.move
        sq0 == b.squares
        sq1 == IF undo.rookFrom # NoSquare /\ undo.rookTo # NoSquare
               THEN [[sq0 EXCEPT ![undo.rookTo.rank][undo.rookTo.file] = NoPiece]
                          EXCEPT ![undo.rookFrom.rank][undo.rookFrom.file] = undo.rookPiece]
               ELSE sq0
        sq2 == [[sq1 EXCEPT ![move.toRank][move.toFile] = NoPiece]
                     EXCEPT ![move.fromRank][move.fromFile] = undo.movedPiece]
        sq3 == restoreCaptured(sq2, undo)
    IN [squares |-> sq3,
        history |-> SubSeq(b.history, 1, Len(b.history) - 1),
        sideToMove |-> undo.sideToMoveBefore,
        castlingRights |-> undo.castlingRightsBefore,
        enPassantTarget |-> undo.enPassantTargetBefore,
        halfMoveClock |-> undo.halfmoveClockBefore,
        fullMoveNumber |-> undo.fullmoveNumberBefore]

\* an undoMove that hands the turn over when there is no move to take back
undoMoveTurnsAnyway(b) ==
    IF ~canUndo(b) THEN [b EXCEPT !.sideToMove = Opposite(b.sideToMove)]
    ELSE popAndRestore(b)

undoMove(b) == IF ~canUndo(b) THEN b ELSE popAndRestore(b)

----------------------------------------------------------------------------
(* Pseudo-legal move generation, per square (ChessBoard) *)

\* a pushIfOk that marks no move as a capture
pushIfOkUnmarked(b, moves, fromRank, fromFile, toRank, toFile, colour) ==
    IF toRank < 0 \/ toRank > 7 \/ toFile < 0 \/ toFile > 7 THEN moves
    ELSE LET target == getSquare(b, toRank, toFile) IN
         IF target = NoPiece \/ target.colour # colour
         THEN Append(moves, PlainMove(fromRank, fromFile, toRank, toFile))
         ELSE moves

\* add a move to the list if the destination is on the board and not friendly
pushIfOk(b, moves, fromRank, fromFile, toRank, toFile, colour) ==
    IF toRank < 0 \/ toRank > 7 \/ toFile < 0 \/ toFile > 7 THEN moves
    ELSE LET target == getSquare(b, toRank, toFile) IN
         IF target = NoPiece
         THEN Append(moves, PlainMove(fromRank, fromFile, toRank, toFile))
         ELSE IF target.colour # colour
         THEN Append(moves, CaptureMove(fromRank, fromFile, toRank, toFile))
         ELSE moves

\* pawn forward moves whose two-square advance looks at the destination only
pawnForwardOverAPiece(b, r, f, piece) ==
    LET dir == IF piece.colour = "white" THEN 1 ELSE -1
        startRank == IF piece.colour = "white" THEN 1 ELSE 6
        oneStepR == r + dir
        twoStepR == r + 2 * dir
        m1 == IF inBounds(oneStepR, f) /\ isEmpty(b, oneStepR, f)
              THEN pushIfOk(b, <<>>, r, f, oneStepR, f, piece.colour)
              ELSE <<>>
    IN IF r = startRank /\ isEmpty(b, twoStepR, f)
       THEN pushIfOk(b, m1, r, f, twoStepR, f, piece.colour)
       ELSE m1

\* pawn forward moves without the two-square advance
pawnForwardOneStep(b, r, f, piece) ==
    LET dir == IF piece.colour = "white" THEN 1 ELSE -1 IN
    IF inBounds(r + dir, f) /\ isEmpty(b, r + dir, f)
    THEN pushIfOk(b, <<>>, r, f, r + dir, f, piece.colour)
    ELSE <<>>

\* pawnMoves, part 1: the forward moves
pawnForward(b, r, f, piece) ==
    LET dir == IF piece.colour = "white" THEN 1 ELSE -1
        startRank == IF piece.colour = "white" THEN 1 ELSE 6
        oneStepR == r + dir
        twoStepR == r + 2 * dir
    IN IF inBounds(oneStepR, f) /\ isEmpty(b, oneStepR, f)
       THEN LET m1 == pushIfOk(b, <<>>, r, f, oneStepR, f, piece.colour) IN
            IF r = startRank /\ isEmpty(b, twoStepR, f)
            THEN pushIfOk(b, m1, r, f, twoStepR, f, piece.colour)
            ELSE m1
       ELSE <<>>

\* pawnMoves, part 2: the diagonal capture towards file f + df
pawnCapture(b, moves, r, f, piece, df) ==
    LET dir == IF piece.colour = "white" THEN 1 ELSE -1
        capR == r + dir
        capF == f + df
    IN IF isEnemy(b, capR, capF, piece.colour)
       THEN pushIfOk(b, moves, r, f, capR, capF, piece.colour)
       ELSE moves

\* pawnMoves, part 3: the en passant capture
pawnEnPassant(b, moves, r, f, piece) ==
    LET dir == IF piece.colour = "white" THEN 1 ELSE -1
        epRank == b.enPassantTarget.rank
        epFile == b.enPassantTarget.file
        victimRank == IF piece.colour = "white" THEN epRank - 1 ELSE epRank + 1
    IN IF b.enPassantTarget # NoSquare
          /\ epRank = r + dir
          /\ (epFile - f = 1 \/ epFile - f = -1)
       THEN \* epRank = r + dir here, so victimRank = r: a rank of the board
            LET victimSq == getSquare(b, victimRank, epFile)
            IN IF victimSq # NoPiece /\ victimSq.type = "pawn" /\ victimSq.colour # piece.colour
               THEN Append(moves, MoveOf(r, f, epRank, epFile, "none", "none", TRUE, TRUE))
               ELSE moves
       ELSE moves

pawnMoves(b, r, f, piece) ==
    pawnEnPassant(b,
        pawnCapture(b, pawnCapture(b, pawnForward(b, r, f, piece), r, f, piece, -1),
                    r, f, piece, 1),
        r, f, piece)

knightJumps == << <<-2, -1>>, <<-2, 1>>, <<-1, -2>>, <<-1, 2>>,
                  <<1, -2>>, <<1, 2>>, <<2, -1>>, <<2, 1>> >>

\* the (dr, df) pairs of kingMoves' two nested loops, in loop order
kingSteps == << <<-1, -1>>, <<-1, 0>>, <<-1, 1>>, <<0, -1>>,
                <<0, 1>>, <<1, -1>>, <<1, 0>>, <<1, 1>> >>

\* the loop `for (const [dr, df] of offsets) pushIfOk(...)`, from offset i on
RECURSIVE offsetMoves(_, _, _, _, _, _, _)
offsetMoves(b, moves, r, f, colour, offsets, i) ==
    IF i > Len(offsets) THEN moves
    ELSE offsetMoves(b, pushIfOk(b, moves, r, f, r + offsets[i][1], f + offsets[i][2], colour),
                     r, f, colour, offsets, i + 1)

knightMoves(b, r, f, piece) == offsetMoves(b, <<>>, r, f, piece.colour, knightJumps, 1)

\* a kingMoves that offers kingside castling on the strength of the right alone
kingMovesCastlingByRight(b, r, f, piece) ==
    LET steps == offsetMoves(b, <<>>, r, f, piece.colour, kingSteps, 1)
        home == IF piece.colour = "white" THEN 0 ELSE 7
        right == IF piece.colour = "white" THEN b.castlingRights.whiteK
                 ELSE b.castlingRights.blackK
    IN IF right /\ r = home /\ f = 4
       THEN Append(steps, MoveOf(r, f, r, 6, "none", "K", FALSE, FALSE))
       ELSE steps

kingMoves(b, r, f, piece) == offsetMoves(b, <<>>, r, f, piece.colour, kingSteps, 1)

rookDirs == << <<1, 0>>, <<-1, 0>>, <<0, 1>>, <<0, -1>> >>

bishopDirs == << <<1, 1>>, <<1, -1>>, <<-1, 1>>, <<-1, -1>> >>

queenDirs == rookDirs \o bishopDirs

\* a ray that captures and slides on behind the captured piece
RECURSIVE rayWalkThroughEnemy(_, _, _, _, _, _, _, _, _)
rayWalkThroughEnemy(b, moves, r, f, piece, rr, ff, dr, df) ==
    IF ~inBounds(rr, ff) THEN moves
    ELSE LET target == getSquare(b, rr, ff) IN
         IF target = NoPiece
         THEN rayWalkThroughEnemy(b, Append(moves, PlainMove(r, f, rr, ff)), r, f, piece,
                                  rr + dr, ff + df, dr, df)
         ELSE IF target.colour # piece.colour
         THEN rayWalkThroughEnemy(b, Append(moves, CaptureMove(r, f, rr, ff)), r, f, piece,
                                  rr + dr, ff + df, dr, df)
         ELSE moves

\* rayMoves' inner while loop: the ray cursor is at (rr, ff)
RECURSIVE rayWalk(_, _, _, _, _, _, _, _, _)
rayWalk(b, moves, r, f, piece, rr, ff, dr, df) ==
    IF ~inBounds(rr, ff) THEN moves
    ELSE LET target == getSquare(b, rr, ff) IN
         IF target = NoPiece
         THEN rayWalk(b, Append(moves, PlainMove(r, f, rr, ff)), r, f, piece,
                      rr + dr, ff + df, dr, df)
         ELSE IF target.colour # piece.colour
         THEN Append(moves, CaptureMove(r, f, rr, ff))
         ELSE moves

\* rayMoves' outer loop, from direction i on
RECURSIVE rayLoop(_, _, _, _, _, _, _)
rayLoop(b, moves, r, f, piece, directions, i) ==
    IF i > Len(directions) THEN moves
    ELSE rayLoop(b, rayWalk(b, moves, r, f, piece, r + directions[i][1], f + directions[i][2],
                            directions[i][1], directions[i][2]),
                 r, f, piece, directions, i + 1)

rayMoves(b, r, f, piece, directions) == rayLoop(b, <<>>, r, f, piece, directions, 1)

rookMoves(b, r, f, piece) == rayMoves(b, r, f, piece, rookDirs)

bishopMoves(b, r, f, piece) == rayMoves(b, r, f, piece, bishopDirs)

queenMoves(b, r, f, piece) == rayMoves(b, r, f, piece, queenDirs)

getPseudoLegalMoves(b, fromRank, fromFile) ==
    LET piece == getSquare(b, fromRank, fromFile) IN
    CASE piece.type = "pawn" -> pawnMoves(b, fromRank, fromFile, piece)
      [] piece.type = "rook" -> rookMoves(b, fromRank, fromFile, piece)
      [] piece.type = "knight" -> knightMoves(b, fromRank, fromFile, piece)
      [] piece.type = "bishop" -> bishopMoves(b, fromRank, fromFile, piece)
      [] piece.type = "queen" -> queenMoves(b, fromRank, fromFile, piece)
      [] piece.type = "king" -> kingMoves(b, fromRank, fromFile, piece)
      [] OTHER -> <<>>

----------------------------------------------------------------------------
(* Attack detection *)

\* is there a piece of this colour and type on (r, f); off the board there is none
holds(b, r, f, colour, type) ==
    inBounds(r, f) /\ getSquare(b, r, f) = Piece(type, colour)

\* a pawn test that looks for the attacking pawn on the wrong side of the square
isAttackedByPawnFromAhead(b, rank, file, byColour) ==
    LET pawnRank == IF byColour = "white" THEN rank + 1 ELSE rank - 1 IN
    IF pawnRank < 0 \/ pawnRank > 7 THEN FALSE
    ELSE \/ (file - 1 >= 0 /\ holds(b, pawnRank, file - 1, byColour, "pawn"))
         \/ (file + 1 <= 7 /\ holds(b, pawnRank, file + 1, byColour, "pawn"))

isAttackedByPawn(b, rank, file, byColour) ==
    LET pawnRank == IF byColour = "white" THEN rank - 1 ELSE rank + 1 IN
    IF pawnRank < 0 \/ pawnRank > 7 THEN FALSE
    ELSE \/ (file - 1 >= 0 /\ holds(b, pawnRank, file - 1, byColour, "pawn"))
         \/ (file + 1 <= 7 /\ holds(b, pawnRank, file + 1, byColour, "pawn"))

isAttackedByKnight(b, rank, file, byColour) ==
    \E i \in 1..Len(knightJumps) :
        holds(b, rank + knightJumps[i][1], file + knightJumps[i][2], byColour, "knight")

isAttackedByKing(b, rank, file, byColour) ==
    \E i \in 1..Len(kingSteps) :
        holds(b, rank + kingSteps[i][1], file + kingSteps[i][2], byColour, "king")

\* a ray that looks on behind a piece that is no attacker
RECURSIVE rayHitPastBlockers(_, _, _, _, _, _, _)
rayHitPastBlockers(b, r, f, dr, df, byColour, attackerTypes) ==
    IF ~(r >= 0 /\ r <= 7 /\ f >= 0 /\ f <= 7) THEN FALSE
    ELSE LET p == getSquare(b, r, f) IN
         IF p # NoPiece /\ p.colour = byColour /\ p.type \in attackerTypes THEN TRUE
         ELSE rayHitPastBlockers(b, r + dr, f + df, dr, df, byColour, attackerTypes)

\* rayAttacked's inner while loop: is the first piece met from (r, f) on an attacker
RECURSIVE rayHit(_, _, _, _, _, _, _)
rayHit(b, r, f, dr, df, byColour, attackerTypes) ==
    IF ~(r >= 0 /\ r <= 7 /\ f >= 0 /\ f <= 7) THEN FALSE
    ELSE LET p == getSquare(b, r, f) IN
         IF p # NoPiece THEN p.colour = byColour /\ p.type \in attackerTypes
         ELSE rayHit(b, r + dr, f + df, dr, df, byColour, attackerTypes)

rayAttacked(b, rank, file, byColour, dirs, attackerTypes) ==
    \E i \in 1..Len(dirs) :
        rayHit(b, rank + dirs[i][1], file + dirs[i][2], dirs[i][1], dirs[i][2],
               byColour, attackerTypes)

isAttackedBySlidingPieces(b, rank, file, byColour) ==
    \/ rayAttacked(b, rank, file, byColour, rookDirs, {"rook", "queen"})
    \/ rayAttacked(b, rank, file, byColour, bishopDirs, {"bishop", "queen"})

isSquareAttacked(b, rank, file, byColour) ==
    \/ isAttackedByPawn(b, rank, file, byColour)
    \/ isAttackedByKnight(b, rank, file, byColour)
    \/ isAttackedByKing(b, rank, file, byColour)
    \/ isAttackedBySlidingPieces(b, rank, file, byColour)

\* the squares holding a king of the colour, as 8 * rank + file
kingSquares(b, colour) ==
    {k \in 0..63 : getSquare(b, k \div 8, k % 8) = Piece("king", colour)}

\* the first king of the colour in rank-major order, or null
findKing(b, colour) ==
    LET ks == kingSquares(b, colour) IN
    IF ks = {} THEN NoSquare
    ELSE LET k == CHOOSE x \in ks : \A y \in ks : x <= y IN Sq(k \div 8, k % 8)

isKingInCheck(b, colour) ==
    LET kingPos == findKing(b, colour) IN
    IF kingPos = NoSquare THEN FALSE
    ELSE isSquareAttacked(b, kingPos.rank, kingPos.file, Opposite(colour))

----------------------------------------------------------------------------
(* The legal move filter *)

FilterThrown(b) == [threw |-> TRUE, moves |-> <<>>, board |-> b]

FilterReturned(legal, b) == [threw |-> FALSE, moves |-> legal, board |-> b]

\* a filter that puts each kept move in front of the list
pushInFront(list, move) == <<move>> \o list

\* `legal.push(move)`, `legalMoves.push(move)`
push(list, move) == Append(list, move)

\* a filter that keeps every candidate
keepsAll(b, moverColour) == TRUE

\* does the king-safety test keep the candidate: `if (!leavesKingInCheck) legal.push(move)`
keeps(b, moverColour) == ~isKingInCheck(b, moverColour)

\* a finally block that never undoes
undoIfMovedNever(b, moved) == b

\* LegalMoveFilter.getLegalMoves, the finally block: `if (moved) board.undoMove()`
undoIfMoved(b, moved) == IF moved THEN undoMove(b) ELSE b

\* LegalMoveFilter.getLegalMoves, the loop over the candidates from the i-th on.
\* A throw of makeMove leaves `moved` false, so the finally block undoes nothing
\* and the error leaves the function with the board as makeMove left it.
RECURSIVE legalLoop(_, _, _, _, _)
legalLoop(b, pseudo, i, legal, moverColour) ==
    IF i > Len(pseudo) THEN FilterReturned(legal, b)
    ELSE LET made == makeMove(b, pseudo[i]) IN
         IF made.threw THEN FilterThrown(made.board)
         ELSE legalLoop(undoMove(made.board), pseudo, i + 1,
                        IF keeps(made.board, moverColour) THEN push(legal, pseudo[i])
                        ELSE legal,
                        moverColour)

\* a test of the turn that lets every piece through
notToMoveNever(b, piece) == FALSE

\* piece.colour !== board.getSideToMove()
notToMove(b, piece) == piece.colour # b.sideToMove

\* LegalMoveFilter.getLegalMoves (ChessBoard.getLegalMoves delegates to it)
getLegalMoves(b, fromRank, fromFile) ==
    LET piece == getSquare(b, fromRank, fromFile) IN
    IF piece = NoPiece THEN FilterReturned(<<>>, b)
    ELSE IF notToMove(b, piece) THEN FilterReturned(<<>>, b)
    ELSE legalLoop(b, getPseudoLegalMoves(b, fromRank, fromFile), 1, <<>>, piece.colour)

\* LegalMoveFilter.filter, the loop over the given moves from the i-th on:
\* makeMove, isKingInCheck, undoMove, with no try block around them
RECURSIVE filterLoop(_, _, _, _, _)
filterLoop(b, moves, i, legalMoves, side) ==
    IF i > Len(moves) THEN FilterReturned(legalMoves, b)
    ELSE LET made == makeMove(b, moves[i]) IN
         IF made.threw THEN FilterThrown(made.board)
         ELSE filterLoop(undoMove(made.board), moves, i + 1,
                         IF ~isKingInCheck(made.board, side) THEN push(legalMoves, moves[i])
                         ELSE legalMoves,
                         side)

filter(b, moves, side) == filterLoop(b, moves, 1, <<>>, side)

----------------------------------------------------------------------------
(* The state machine *)

\* the board object, as one value
Board ==
    [squares |-> squares,
     history |-> history,
     sideToMove |-> sideToMove,
     castlingRights |-> castlingRights,
     enPassantTarget |-> enPassantTarget,
     halfMoveClock |-> halfMoveClock,
     fullMoveNumber |-> fullMoveNumber]

\* the board object becomes b
Becomes(b) ==
    /\ squares' = b.squares
    /\ history' = b.history
    /\ sideToMove' = b.sideToMove
    /\ castlingRights' = b.castlingRights
    /\ enPassantTarget' = b.enPassantTarget
    /\ halfMoveClock' = b.halfMoveClock
    /\ fullMoveNumber' = b.fullMoveNumber

\* lastCall records the call just made on the board: its name, the move passed
\* (makeMove), whether it threw, and the list it returned (the filter).
\* before is the board as the call found it.
Call(op, move, threw, err, moves) ==
    [op |-> op, move |-> move, threw |-> threw, err |-> err, moves |-> moves]

\* scan is the position of a running LegalMoveFilter.getLegalMoves call: its
\* place in the loop (pc), the candidates (pseudo), the index of the candidate
\* at hand (i), the list built so far (legal), the colour of the mover and the
\* depth of the history when the call began; Idle when no call is running
Idle ==
    [pc |-> "idle", pseudo |-> <<>>, i |-> 0, legal |-> <<>>,
     moverColour |-> "none", entryDepth |-> 0]

Init ==
    /\ squares = NewBoard.squares
    /\ history = NewBoard.history
    /\ sideToMove = NewBoard.sideToMove
    /\ castlingRights = NewBoard.castlingRights
    /\ enPassantTarget = NewBoard.enPassantTarget
    /\ halfMoveClock = NewBoard.halfMoveClock
    /\ fullMoveNumber = NewBoard.fullMoveNumber
    /\ lastCall = Call("new", NoMove, FALSE, "none", <<>>)
    /\ before = NewBoard
    /\ scan = Idle

\* board.makeMove(move), called when the board is b
MakeMoveOn(b, move) ==
    LET made == makeMove(b, move) IN
    /\ Becomes(made.board)
    /\ lastCall' = Call("makeMove", move, made.threw, made.err, <<>>)
    /\ before' = b
    /\ scan' = scan

\* board.makeMove(move)
MakeMove(move) == MakeMoveOn(Board, move)

\* the (from, to) pairs a game under Spec is played with
PlayedMoves ==
    { <<1, 4, 3, 4>>,    \* e2-e4
      <<3, 4, 4, 4>>,    \* e4-e5
      <<3, 4, 4, 3>>,    \* e4xd5
      <<4, 4, 5, 3>>,    \* e5xd6 (en passant)
      <<0, 3, 4, 7>>,    \* Qd1-h5
      <<4, 7, 6, 7>>,    \* Qh5xh7
      <<4, 7, 7, 4>>,    \* Qh5xe8, the capture of a king
      <<0, 4, 1, 4>>,    \* Ke1-e2
      <<6, 3, 4, 3>>,    \* d7-d5
      <<6, 5, 5, 5>>,    \* f7-f6
      <<6, 6, 5, 6>>,    \* g7-g6
      <<1, 0, 3, 0>>,    \* a2-a4
      <<0, 0, 2, 0>>,    \* Ra1-a3
      <<7, 3, 4, 3>> }   \* Qd8xd5

\* a caller asks for the legal moves of a square and plays one of them: makeMove
\* finds the board as getLegalMoves left it.  (getLegalMoves throws only if
\* makeMove refuses a generated candidate; C5 checks that it refuses none.)
PlayOneOf(played) ==
    \E k \in played :
        LET got == getLegalMoves(Board, k[1], k[2]) IN
        /\ ~got.threw
        /\ \E i \in 1..Len(got.moves) :
             /\ got.moves[i].toRank = k[3]
             /\ got.moves[i].toFile = k[4]
             /\ MakeMoveOn(got.board, got.moves[i])

PlayLegalMove ==
    /\ Len(history) < MaxDepth
    /\ PlayOneOf(PlayedMoves)

\* board.undoMove()
UndoMove ==
    /\ Becomes(undoMove(Board))
    /\ lastCall' = Call("undoMove", NoMove, FALSE, "none", <<>>)
    /\ before' = Board
    /\ scan' = scan

Next == PlayLegalMove \/ UndoMove

Spec == Init /\ [][Next]_vars

----------------------------------------------------------------------------
(* A caller that passes any move: SpecAny *)

\* the moves a caller under SpecAny passes to makeMove
AnyMoves ==
    { PlainMove(1, 4, 3, 4),                                  \* e2-e4
      PlainMove(6, 3, 4, 3),                                  \* d7-d5
      PlainMove(3, 4, 4, 4),                                  \* e4-e5
      CaptureMove(3, 4, 4, 3),                                \* e4xd5
      MoveOf(6, 3, 5, 3, "none", "none", TRUE, FALSE),        \* d7-d6 flagged en passant
      MoveOf(1, 3, 2, 4, "none", "none", TRUE, TRUE),         \* d2-e3 flagged en passant
      MoveOf(0, 6, 2, 5, "none", "K", FALSE, FALSE),          \* Ng1-f3 flagged castle K
      MoveOf(0, 4, 0, 6, "none", "K", FALSE, FALSE),          \* Ke1-g1 flagged castle K
      MoveOf(7, 4, 7, 2, "none", "Q", FALSE, FALSE),          \* Ke8-c8 flagged castle Q
      MoveOf(1, 0, 7, 0, "queen", "none", FALSE, TRUE),       \* a2xa8 promoting to a queen
      MoveOf(6, 7, 0, 7, "knight", "none", FALSE, TRUE),      \* h7xh1 promoting to a knight
      CaptureMove(1, 1, 6, 1) }                               \* b2xb7, a pawn to its seventh rank

\* board.makeMove(move) with a move of the caller's own making
MakeAnyMove ==
    /\ Len(history) < MaxAnyDepth
    /\ \E move \in AnyMoves : MakeMove(move)

\* the move lists a caller under SpecAny passes to LegalMoveFilter.filter
FilterInputs ==
    { << PlainMove(1, 4, 3, 4) >>,
      << PlainMove(6, 3, 4, 3), MoveOf(6, 3, 5, 3, "none", "none", TRUE, FALSE) >>,
      << MoveOf(1, 3, 2, 4, "none", "none", TRUE, TRUE), PlainMove(1, 4, 3, 4) >>,
      << PlainMove(0, 4, 1, 4), CaptureMove(3, 4, 4, 3) >> }

\* LegalMoveFilter.filter(board, moves, side)
CallFilter ==
    \E moves \in FilterInputs, side \in {"white", "black"} :
        LET got == filter(Board, moves, side) IN
        /\ Becomes(got.board)
        /\ lastCall' = Call("filter", NoMove, got.threw, "none", got.moves)
        /\ before' = Board
        /\ scan' = scan

\* the squares a caller under SpecAny asks the legal moves of
QuerySquares == { Sq(1, 4), Sq(3, 4), Sq(6, 3), Sq(0, 6), Sq(7, 4), Sq(2, 2) }

\* board.getLegalMoves(rank, file)
CallGetLegalMoves ==
    \E q \in QuerySquares :
        LET got == getLegalMoves(Board, q.rank, q.file) IN
        /\ Becomes(got.board)
        /\ lastCall' = Call("getLegalMoves", NoMove, got.threw, "none", got.moves)
        /\ before' = Board
        /\ scan' = scan

NextAny == MakeAnyMove \/ UndoMove \/ CallFilter \/ CallGetLegalMoves

SpecAny == Init /\ [][NextAny]_vars

----------------------------------------------------------------------------
(* The whole-side generator, MoveGenerator *)

\* MoveGenerator.makeMove, the one place where the generator builds a move
generatorMove(b, fromRank, fromFile, toRank, toFile) ==
    MoveOf(fromRank, fromFile, toRank, toFile, "none", "none", FALSE,
           getSquare(b, toRank, toFile) # NoPiece)

\* the deltas of addKingMoves, each read as (df, dr)
kingDeltas ==
    << <<-1, -1>>, <<0, -1>>, <<1, -1>>, <<-1, 0>>, <<1, 0>>, <<-1, 1>>, <<0, 1>>, <<1, 1>> >>

RECURSIVE addKingMovesFrom(_, _, _, _, _, _)
addKingMovesFrom(b, rank, file, piece, moves, i) ==
    IF i > Len(kingDeltas) THEN moves
    ELSE LET toFile == file + kingDeltas[i][1]
             toRank == rank + kingDeltas[i][2]
         IN IF ~inBounds(toRank, toFile)
            THEN addKingMovesFrom(b, rank, file, piece, moves, i + 1)
            ELSE IF getSquare(b, toRank, toFile).colour = piece.colour
            THEN addKingMovesFrom(b, rank, file, piece, moves, i + 1)
            ELSE addKingMovesFrom(b, rank, file, piece,
                                  Append(moves, generatorMove(b, rank, file, toRank, toFile)),
                                  i + 1)

\* MoveGenerator.addKingMoves(board, rank, file, piece, moves)
addKingMoves(b, rank, file, piece, moves) == addKingMovesFrom(b, rank, file, piece, moves, 1)

\* the deltas of addKnightMoves, each read as (df, dr)
knightDeltas ==
    << <<1, 2>>, <<2, 1>>, <<2, -1>>, <<1, -2>>, <<-1, -2>>, <<-2, -1>>, <<-2, 1>>, <<-1, 2>> >>

RECURSIVE addKnightMovesFrom(_, _, _, _, _, _)
addKnightMovesFrom(b, fromRank, fromFile, piece, moves, i) ==
    IF i > Len(knightDeltas) THEN moves
    ELSE LET toFile == fromFile + knightDeltas[i][1]
             toRank == fromRank + knightDeltas[i][2]
         IN IF ~inBounds(toRank, toFile)
            THEN addKnightMovesFrom(b, fromRank, fromFile, piece, moves, i + 1)
            ELSE IF getSquare(b, toRank, toFile).colour = piece.colour
            THEN addKnightMovesFrom(b, fromRank, fromFile, piece, moves, i + 1)
            ELSE addKnightMovesFrom(b, fromRank, fromFile, piece,
                                    Append(moves, generatorMove(b, fromRank, fromFile,
                                                                toRank, toFile)),
                                    i + 1)

\* MoveGenerator.addKnightMoves(board, fromRank, fromFile, piece, moves)
addKnightMoves(b, fromRank, fromFile, piece, moves) ==
    addKnightMovesFrom(b, fromRank, fromFile, piece, moves, 1)

\* ROOK_DIRS, BISHOP_DIRS, QUEEN_DIRS, each entry read as (df, dr)
ROOK_DIRS == << <<1, 0>>, <<-1, 0>>, <<0, 1>>, <<0, -1>> >>

BISHOP_DIRS == << <<1, 1>>, <<1, -1>>, <<-1, 1>>, <<-1, -1>> >>

QUEEN_DIRS == ROOK_DIRS \o BISHOP_DIRS

\* addSlidingMoves' while loop: the cursor is at (rank, file)
RECURSIVE addSlidingWalk(_, _, _, _, _, _, _, _, _)
addSlidingWalk(b, moves, fromRank, fromFile, piece, rank, file, df, dr) ==
    IF ~inBounds(rank, file) THEN moves
    ELSE LET target == getSquare(b, rank, file) IN
         IF target # NoPiece /\ target.colour = piece.colour THEN moves
         ELSE LET pushed == Append(moves, generatorMove(b, fromRank, fromFile, rank, file)) IN
              IF target # NoPiece /\ target.colour # piece.colour THEN pushed
              ELSE addSlidingWalk(b, pushed, fromRank, fromFile, piece,
                                  rank + dr, file + df, df, dr)

\* addSlidingMoves' for loop, from direction i on
RECURSIVE addSlidingLoop(_, _, _, _, _, _, _)
addSlidingLoop(b, moves, fromRank, fromFile, piece, directions, i) ==
    IF i > Len(directions) THEN moves
    ELSE addSlidingLoop(b,
                        addSlidingWalk(b, moves, fromRank, fromFile, piece,
                                       fromRank + directions[i][2], fromFile + directions[i][1],
                                       directions[i][1], directions[i][2]),
                        fromRank, fromFile, piece, directions, i + 1)

\* MoveGenerator.addSlidingMoves(board, fromRank, fromFile, piece, moves, directions)
addSlidingMoves(b, fromRank, fromFile, piece, moves, directions) ==
    addSlidingLoop(b, moves, fromRank, fromFile, piece, directions, 1)

addRookMoves(b, rank, file, piece, moves) ==
    addSlidingMoves(b, rank, file, piece, moves, ROOK_DIRS)

addBishopMoves(b, rank, file, piece, moves) ==
    addSlidingMoves(b, rank, file, piece, moves, BISHOP_DIRS)

addQueenMoves(b, rank, file, piece, moves) ==
    addSlidingMoves(b, rank, file, piece, moves, QUEEN_DIRS)

\* addPawnMoves, the capture to file fromFile + df
addPawnCapture(b, fromRank, fromFile, piece, moves, df) ==
    LET dir == IF piece.colour = "white" THEN 1 ELSE -1
        capFile == fromFile + df
        capRank == fromRank + dir
    IN IF ~inBounds(capRank, capFile) THEN moves
       ELSE LET capPiece == getSquare(b, capRank, capFile) IN
            IF capPiece # NoPiece /\ capPiece.colour # piece.colour
            THEN Append(moves, generatorMove(b, fromRank, fromFile, capRank, capFile))
            ELSE moves

\* MoveGenerator.addPawnMoves(board, fromRank, fromFile, piece, moves)
addPawnMoves(b, fromRank, fromFile, piece, moves) ==
    LET dir == IF piece.colour = "white" THEN 1 ELSE -1
        oneStepRank == fromRank + dir
        forward == IF inBounds(oneStepRank, fromFile) /\ isEmpty(b, oneStepRank, fromFile)
                   THEN Append(moves, generatorMove(b, fromRank, fromFile, oneStepRank, fromFile))
                   ELSE moves
    IN addPawnCapture(b, fromRank, fromFile, piece,
                      addPawnCapture(b, fromRank, fromFile, piece, forward, -1), 1)

\* the switch of MoveGenerator.getPseudoLegalMoves for the piece on a square
addPieceMoves(b, rank, file, piece, moves) ==
    CASE piece.type = "pawn" -> addPawnMoves(b, rank, file, piece, moves)
      [] piece.type = "rook" -> addRookMoves(b, rank, file, piece, moves)
      [] piece.type = "knight" -> addKnightMoves(b, rank, file, piece, moves)
      [] piece.type = "bishop" -> addBishopMoves(b, rank, file, piece, moves)
      [] piece.type = "queen" -> addQueenMoves(b, rank, file, piece, moves)
      [] piece.type = "king" -> addKingMoves(b, rank, file, piece, moves)
      [] OTHER -> moves

\* the inner loop of MoveGenerator.getPseudoLegalMoves over FILES, from file on.
\* Every add...Moves only appends to the shared list, so the list is the moves
\* of the piece on the square followed by the moves of the squares after it.
RECURSIVE generatorFileLoop(_, _, _)
generatorFileLoop(b, rank, file) ==
    IF file > 7 THEN <<>>
    ELSE LET piece == getSquare(b, rank, file) IN
         IF piece = NoPiece \/ piece.colour # b.sideToMove
         THEN generatorFileLoop(b, rank, file + 1)
         ELSE addPieceMoves(b, rank, file, piece, <<>>) \o generatorFileLoop(b, rank, file + 1)

\* the outer loop of MoveGenerator.getPseudoLegalMoves over RANKS, from rank on
RECURSIVE generatorLoop(_, _)
generatorLoop(b, rank) ==
    IF rank > 7 THEN <<>>
    ELSE generatorFileLoop(b, rank, 0) \o generatorLoop(b, rank + 1)

\* MoveGenerator.getPseudoLegalMoves(board)
generatorPseudoLegalMoves(b) == generatorLoop(b, 0)

----------------------------------------------------------------------------
(* A game that clears the white king's side: SpecCastle *)

\* the deepest history under SpecCastle
MaxCastleDepth == 6

\* the (from, to) pairs a game under SpecCastle is played with
CastleGameMoves ==
    { <<1, 4, 3, 4>>,    \* e2-e4
      <<3, 4, 4, 4>>,    \* e4-e5
      <<0, 6, 2, 5>>,    \* Ng1-f3
      <<0, 5, 3, 2>>,    \* Bf1-c4
      <<3, 2, 6, 5>>,    \* Bc4xf7
      <<0, 7, 0, 6>>,    \* Rh1-g1
      <<0, 6, 0, 7>>,    \* Rg1-h1
      <<6, 4, 4, 4>>,    \* e7-e5
      <<7, 6, 5, 5>>,    \* Ng8-f6
      <<5, 5, 7, 6>> }   \* Nf6-g8

PlayCastleGame ==
    /\ Len(history) < MaxCastleDepth
    /\ PlayOneOf(CastleGameMoves)

NextCastle == PlayCastleGame \/ UndoMove

SpecCastle == Init /\ [][NextCastle]_vars

----------------------------------------------------------------------------
(* The legal move filter, statement by statement: SpecScan *)

\* the deepest history under SpecScan
MaxScanDepth == 4

\* the (from, to) pairs a game under SpecScan is played with
ScanMoves ==
    { <<1, 4, 3, 4>>,    \* e2-e4
      <<3, 4, 4, 4>>,    \* e4-e5
      <<0, 3, 4, 7>>,    \* Qd1-h5
      <<6, 5, 5, 5>>,    \* f7-f6
      <<6, 6, 5, 6>>,    \* g7-g6
      <<6, 3, 4, 3>> }   \* d7-d5

\* the squares whose legal moves are asked for under SpecScan
ScanSquares == { Sq(1, 4), Sq(4, 4), Sq(0, 3), Sq(6, 6), Sq(7, 4), Sq(6, 3), Sq(2, 2) }

\* a legal move is played while no getLegalMoves call is running
ScanPlay ==
    /\ scan.pc = "idle"
    /\ Len(history) < MaxScanDepth
    /\ PlayOneOf(ScanMoves)

\* getLegalMoves(board, fromRank, fromFile) up to the loop: the two early
\* returns, else the candidates are generated
ScanBegin ==
    /\ scan.pc = "idle"
    /\ \E q \in ScanSquares :
         LET piece == getSquare(Board, q.rank, q.file) IN
         IF piece = NoPiece \/ piece.colour # sideToMove
         THEN /\ scan' = Idle
              /\ lastCall' = Call("getLegalMoves", NoMove, FALSE, "none", <<>>)
         ELSE /\ scan' = [pc |-> "loop",
                          pseudo |-> getPseudoLegalMoves(Board, q.rank, q.file),
                          i |-> 1,
                          legal |-> <<>>,
                          moverColour |-> piece.colour,
                          entryDepth |-> Len(history)]
              /\ lastCall' = Call("getLegalMoves begins", NoMove, FALSE, "none", <<>>)
    /\ before' = Board
    /\ Becomes(Board)

\* the loop takes the next candidate: `board.makeMove(move); moved = true`.
\* A throw leaves moved false, the finally block undoes nothing and the error
\* ends the call.
ScanMake ==
    /\ scan.pc = "loop"
    /\ scan.i <= Len(scan.pseudo)
    /\ LET made == makeMove(Board, scan.pseudo[scan.i]) IN
       IF made.threw
       THEN /\ Becomes(undoIfMoved(made.board, FALSE))
            /\ scan' = Idle
            /\ lastCall' = Call("getLegalMoves", NoMove, TRUE, made.err, <<>>)
       ELSE /\ Becomes(made.board)
            /\ scan' = [scan EXCEPT !.pc = "moved"]
            /\ lastCall' = lastCall
    /\ before' = before

\* `if (!board.isKingInCheck(moverColour)) legal.push(move)`
ScanTest ==
    /\ scan.pc = "moved"
    /\ scan' = [scan EXCEPT !.pc = "tested",
                            !.legal = IF keeps(Board, scan.moverColour)
                                      THEN push(scan.legal, scan.pseudo[scan.i])
                                      ELSE scan.legal]
    /\ Becomes(Board)
    /\ UNCHANGED <<lastCall, before>>

\* the finally block with moved true, then on to the next candidate
ScanUndo ==
    /\ scan.pc = "tested"
    /\ Becomes(undoIfMoved(Board, TRUE))
    /\ scan' = [scan EXCEPT !.pc = "loop", !.i = scan.i + 1]
    /\ UNCHANGED <<lastCall, before>>

\* the loop is over: `return legal`
ScanReturn ==
    /\ scan.pc = "loop"
    /\ scan.i > Len(scan.pseudo)
    /\ scan' = Idle
    /\ lastCall' = Call("getLegalMoves", NoMove, FALSE, "none", scan.legal)
    /\ Becomes(Board)
    /\ before' = before

NextScan == ScanPlay \/ ScanBegin \/ ScanMake \/ ScanTest \/ ScanUndo \/ ScanReturn

SpecScan == Init /\ [][NextScan]_vars

----------------------------------------------------------------------------
(* Vocabulary of the claims *)

Squares64 == {Sq(r, f) : r \in Coord, f \in Coord}

SeqRange(s) == {s[i] : i \in 1..Len(s)}

\* the squares holding a piece of the side to move
MoverSquares == {q \in Squares64 : squares[q.rank][q.file].colour = sideToMove}

PseudoAt(q) == getPseudoLegalMoves(Board, q.rank, q.file)

LegalAt(q) == getLegalMoves(Board, q.rank, q.file).moves

\* what a caller can observe of a board besides the depth of its history
Observable(b) ==
    [squares |-> b.squares,
     sideToMove |-> b.sideToMove,
     castlingRights |-> b.castlingRights,
     enPassantTarget |-> b.enPassantTarget,
     halfMoveClock |-> b.halfMoveClock,
     fullMoveNumber |-> b.fullMoveNumber]

\* the record of the move the last undoMove took back
Undone == before.history[Len(before.history)]

\* a pawn move to another file onto an empty square: an en passant capture
IsEnPassantCapture(m) ==
    /\ squares[m.fromRank][m.fromFile].type = "pawn"
    /\ m.toFile # m.fromFile
    /\ squares[m.toRank][m.toFile] = NoPiece

Abs(x) == IF x < 0 THEN -x ELSE x

LegalCount(q) == Len(LegalAt(q))

\* the number of legal moves of the squares of S from square 8 * rank + file = k on
RECURSIVE LegalCountFrom(_, _)
LegalCountFrom(S, k) ==
    IF k > 63 THEN 0
    ELSE (IF Sq(k \div 8, k % 8) \in S THEN LegalCount(Sq(k \div 8, k % 8)) ELSE 0)
         + LegalCountFrom(S, k + 1)

LegalTotal(S) == LegalCountFrom(S, 0)

----------------------------------------------------------------------------
(* The claims *)

\* C1: in every position reached by legal moves, makeMove(m) followed by
\* undoMove() for any move m that getLegalMoves returns restores the squares,
\* the side to move, the castling rights, the en passant target, both clocks
\* and the history.
C1_RoundTripOfLegalMoves ==
    \A q \in Squares64 : \A m \in SeqRange(LegalAt(q)) :
        LET made == makeMove(Board, m) IN
        /\ ~made.threw
        /\ made.board # Board
        /\ undoMove(made.board) = Board

\* C1 witness: an en passant capture was made and taken back, and the position
\* offers it again
C1_Witness ==
    /\ lastCall.op = "undoMove"
    /\ Len(before.history) > 0
    /\ Undone.move.enPassant
    /\ Undone.capturedSquare # NoSquare
    /\ Undone.move \in SeqRange(LegalAt(Sq(Undone.move.fromRank, Undone.move.fromFile)))

\* C2 (as claimed): for every move makeMove accepts, flagged or not, generated
\* or not, the undoMove that follows restores squares, side to move, castling
\* rights, en passant target and both clocks.
C2_UndoRestoresEveryAcceptedMove ==
    (lastCall.op = "makeMove" /\ ~lastCall.threw) =>
        Observable(undoMove(Board)) = Observable(before)

\* C3 (as claimed): a makeMove that throws leaves every field of the board,
\* the en passant target included, as it found it.
C3_FailedMakeMoveChangesNothing ==
    (lastCall.op = "makeMove" /\ lastCall.threw) => Board = before

\* C4: makeMove throws when the source square is empty or holds a piece of
\* the side not to move, and it then leaves the board as it found it.
C4_InvalidSourceFails ==
    lastCall.op = "makeMove" =>
        LET p == before.squares[lastCall.move.fromRank][lastCall.move.fromFile] IN
        /\ p = NoPiece => (lastCall.threw /\ lastCall.err = "No piece on source square."
                           /\ Board = before)
        /\ (p # NoPiece /\ p.colour # before.sideToMove) =>
               (lastCall.threw /\ lastCall.err = "Not your turn." /\ Board = before)

\* C4 witness: a move of a piece of the side not to move was refused
C4_Witness ==
    /\ lastCall.op = "makeMove"
    /\ lastCall.threw
    /\ before.squares[lastCall.move.fromRank][lastCall.move.fromFile] # NoPiece
    /\ before.squares[lastCall.move.fromRank][lastCall.move.fromFile].colour # before.sideToMove
    /\ Len(history) > 0

\* C5: for a square of the side to move, getLegalMoves returns exactly the
\* pseudo-legal moves of the square after which the mover's king is not attacked.
C5_LegalMovesAreTheSafeCandidates ==
    \A q \in MoverSquares :
        /\ SeqRange(LegalAt(q)) \subseteq SeqRange(PseudoAt(q))
        /\ \A m \in SeqRange(PseudoAt(q)) :
               LET made == makeMove(Board, m) IN
               /\ ~made.threw
               /\ (m \in SeqRange(LegalAt(q))) <=> ~isKingInCheck(made.board, sideToMove)

\* C5 witness: after a move was made, a piece of the side to move has a
\* pseudo-legal move that would leave its own king attacked
C5_Witness ==
    /\ lastCall.op = "makeMove"
    /\ \E q \in MoverSquares : \E m \in SeqRange(PseudoAt(q)) :
           /\ isKingInCheck(makeMove(Board, m).board, sideToMove)
           /\ ~isKingInCheck(Board, sideToMove)

\* C6 (as claimed): getLegalMoves and filter leave the board as they found it
\* on every exit path, a propagated error of makeMove included.
C6_FilterLeavesBoardUnchanged ==
    lastCall.op \in {"getLegalMoves", "filter"} => Board = before

\* C7: on the freshly constructed board white has 20 legal moves over the 64
\* squares: 16 of pawns, 4 of knights, none of any other piece.
C7_TwentyMovesAtTheStart ==
    lastCall.op = "new" =>
        /\ LegalTotal(Squares64) = 20
        /\ LegalTotal({q \in Squares64 : squares[q.rank][q.file].type = "pawn"}) = 16
        /\ LegalTotal({q \in Squares64 : squares[q.rank][q.file].type = "knight"}) = 4
        /\ \A q \in Squares64 : LegalCount(q) > 0 => squares[q.rank][q.file].colour = "white"

\* C7 witness: the board as the constructor leaves it
C7_Witness ==
    /\ lastCall.op = "new"
    /\ history = <<>>
    /\ sideToMove = "white"
    /\ squares[1][4] = Piece("pawn", "white")

C9_EnPassantOnlyRightAfterAdvance ==
    \A q \in Squares64 : \A m \in SeqRange(LegalAt(q)) :
        (m.enPassant \/ IsEnPassantCapture(m)) =>
            /\ m.enPassant
            /\ Len(history) > 0
            /\ LET last == history[Len(history)] IN
               /\ last.movedPiece.type = "pawn"
               /\ Abs(last.move.toRank - last.move.fromRank) = 2
               /\ m.toFile = last.move.toFile
               /\ 2 * m.toRank = last.move.fromRank + last.move.toRank
               /\ m.fromRank = last.move.toRank
               /\ Abs(m.fromFile - last.move.toFile) = 1

\* C9 witness: right after a two-square advance the pawn beside it may capture
\* en passant
C9_Witness ==
    /\ lastCall.op = "makeMove"
    /\ \E q \in MoverSquares : \E m \in SeqRange(LegalAt(q)) : m.enPassant

\* C10: after a successful makeMove the half-move clock is 0 if a pawn moved
\* or a piece was captured (en passant included), and else one more than before.
C10_HalfMoveClockAfterMove ==
    \A q \in MoverSquares : \A m \in SeqRange(PseudoAt(q)) :
        LET made == makeMove(Board, m)
            pawn == squares[q.rank][q.file].type = "pawn"
            captures == squares[m.toRank][m.toFile] # NoPiece \/ IsEnPassantCapture(m)
        IN /\ ~made.threw
           /\ made.board.halfMoveClock = IF pawn \/ captures THEN 0 ELSE halfMoveClock + 1

\* C10 witness: a capture by a piece that is no pawn reset a running clock
C10_Witness ==
    /\ lastCall.op = "makeMove"
    /\ ~lastCall.threw
    /\ before.halfMoveClock > 0
    /\ halfMoveClock = 0
    /\ before.squares[lastCall.move.fromRank][lastCall.move.fromFile].type # "pawn"

\* C11: after a successful makeMove the full-move number is one more than
\* before if the side that moved was black, and unchanged if it was white.
C11_FullMoveNumberAfterMove ==
    \A q \in MoverSquares : \A m \in SeqRange(PseudoAt(q)) :
        LET made == makeMove(Board, m) IN
        /\ ~made.threw
        /\ made.board.fullMoveNumber =
               IF sideToMove = "black" THEN fullMoveNumber + 1 ELSE fullMoveNumber

\* C11 witness: black has just moved and the number went up; the white move
\* before it had left the number alone
C11_Witness ==
    /\ lastCall.op = "makeMove"
    /\ ~lastCall.threw
    /\ before.sideToMove = "black"
    /\ fullMoveNumber = before.fullMoveNumber + 1
    /\ Len(before.history) > 0
    /\ before.history[Len(before.history)].fullmoveNumberBefore = before.fullMoveNumber

\* C12: a successful makeMove toggles the side to move and pushes exactly one
\* undo record, the record of a piece of the side that was to move; so the
\* colours of the pieces moved alternate along the history.
C12_SidesAlternate ==
    /\ (lastCall.op = "makeMove" /\ ~lastCall.threw) =>
          /\ sideToMove # before.sideToMove
          /\ Len(history) = Len(before.history) + 1
          /\ SubSeq(history, 1, Len(before.history)) = before.history
          /\ history[Len(history)].movedPiece.colour = before.sideToMove
    /\ \A i \in 1..Len(history) :
          /\ history[i].movedPiece.colour = history[i].sideToMoveBefore
          /\ i < Len(history) =>
                history[i + 1].movedPiece.colour # history[i].movedPiece.colour
          /\ i = Len(history) => sideToMove # history[i].movedPiece.colour

\* C12 witness: four moves stand in the history, white, black, white, black
C12_Witness ==
    /\ lastCall.op = "makeMove"
    /\ ~lastCall.threw
    /\ Len(history) = 4
    /\ history[3].movedPiece.colour = "white"
    /\ history[4].movedPiece.colour = "black"

PromotionTypes == {"queen", "rook", "bishop", "knight"}

\* the rank a pawn of this colour promotes on
LastRank(colour) == IF colour = "white" THEN 7 ELSE 0

\* the places of the list moves that hold a move from and to the squares of m
SamePair(moves, m) ==
    {i \in 1..Len(moves) : /\ moves[i].fromRank = m.fromRank
                           /\ moves[i].fromFile = m.fromFile
                           /\ moves[i].toRank = m.toRank
                           /\ moves[i].toFile = m.toFile}

\* C13: every pawn move that the generator produces onto the last rank of the
\* pawn's colour stands in the list exactly four times, once for each of queen,
\* rook, bishop and knight, and never without a promotion type.
C13_PromotionMovesGeneratedFourTimes ==
    \A q \in Squares64 :
        LET moves == PseudoAt(q)
            piece == squares[q.rank][q.file]
        IN piece.type = "pawn" =>
             \A m \in SeqRange(moves) :
                m.toRank = LastRank(piece.colour) =>
                   /\ Cardinality(SamePair(moves, m)) = 4
                   /\ \A t \in PromotionTypes :
                         \E i \in SamePair(moves, m) : moves[i].promotion = t

\* the piece the last makeMove call found on the source square of its move
MovedByLastCall == before.squares[lastCall.move.fromRank][lastCall.move.fromFile]

\* the last call was makeMove, it returned, and its move took a pawn to the
\* last rank with a promotion type
PromotionWasMade ==
    /\ lastCall.op = "makeMove"
    /\ ~lastCall.threw
    /\ MovedByLastCall.type = "pawn"
    /\ lastCall.move.toRank = LastRank(MovedByLastCall.colour)
    /\ lastCall.move.promotion \in PromotionTypes

\* C14: once makeMove has applied a pawn move to the last rank that carries a
\* promotion type, the destination holds a piece of that type and of the
\* mover's colour; undoMove then puts the pawn back on the source square and
\* leaves on the destination what it held before the move.
C14_PromotionAndItsUndo ==
    PromotionWasMade =>
        LET m == lastCall.move
            undone == undoMove(Board)
        IN /\ squares[m.toRank][m.toFile] = Piece(m.promotion, MovedByLastCall.colour)
           /\ squares[m.fromRank][m.fromFile] = NoPiece
           /\ undone.squares[m.fromRank][m.fromFile] = MovedByLastCall
           /\ undone.squares[m.toRank][m.toFile] = before.squares[m.toRank][m.toFile]
           /\ undone.squares = before.squares

\* C14 witness: a black pawn has just promoted to a knight on a square that
\* held a white piece
C14_Witness ==
    /\ PromotionWasMade
    /\ MovedByLastCall.colour = "black"
    /\ lastCall.move.promotion = "knight"
    /\ before.squares[lastCall.move.toRank][lastCall.move.toFile].colour = "white"
    /\ squares[lastCall.move.toRank][lastCall.move.toFile].type = "knight"

CastleSides == {"K", "Q"}

HomeRank(colour) == IF colour = "white" THEN 0 ELSE 7

\* the castling right of a colour on a wing
RightOf(rights, colour, wing) ==
    IF colour = "white"
    THEN (IF wing = "K" THEN rights.whiteK ELSE rights.whiteQ)
    ELSE (IF wing = "K" THEN rights.blackK ELSE rights.blackQ)

\* the files between the king and the rook of a wing
FilesBetween(wing) == IF wing = "K" THEN {5, 6} ELSE {1, 2, 3}

\* the files of the king's start, pass-through and destination squares
FilesCrossed(wing) == IF wing = "K" THEN {4, 5, 6} ELSE {4, 3, 2}

\* the file a castling king lands on
CastleFile(wing) == IF wing = "K" THEN 6 ELSE 2

\* the preconditions of castling for a colour on a wing in the board b
CanCastle(b, colour, wing) ==
    /\ RightOf(b.castlingRights, colour, wing)
    /\ getSquare(b, HomeRank(colour), 4) = Piece("king", colour)
    /\ getSquare(b, HomeRank(colour), IF wing = "K" THEN 7 ELSE 0) = Piece("rook", colour)
    /\ \A f \in FilesBetween(wing) : isEmpty(b, HomeRank(colour), f)
    /\ \A f \in FilesCrossed(wing) :
          ~isSquareAttacked(b, HomeRank(colour), f, Opposite(colour))

\* a move that castles: it carries a castle side, or it takes a king two files
IsCastling(b, m) ==
    \/ m.castle # "none"
    \/ /\ getSquare(b, m.fromRank, m.fromFile).type = "king"
       /\ Abs(m.toFile - m.fromFile) = 2

\* C15: when the side to move has the castling right of a wing, the squares
\* between its king and that rook are empty and the king's start, pass-through
\* and destination squares are not attacked, the legal moves of the king include
\* the castling move: the king moves two files and the move carries the wing.
C15_CastlingIsOffered ==
    \A wing \in CastleSides :
        CanCastle(Board, sideToMove, wing) =>
            \E m \in SeqRange(LegalAt(Sq(HomeRank(sideToMove), 4))) :
                /\ m.castle = wing
                /\ m.toRank = HomeRank(sideToMove)
                /\ m.toFile = CastleFile(wing)

\* the wing a castling move goes to
WingOf(m) ==
    IF m.castle # "none" THEN m.castle
    ELSE IF m.toFile > m.fromFile THEN "K" ELSE "Q"

\* every move that either generator offers for the piece on q
OfferedAt(q) ==
    SeqRange(PseudoAt(q)) \cup SeqRange(LegalAt(q)) \cup
    (IF squares[q.rank][q.file].type = "king"
     THEN SeqRange(addKingMoves(Board, q.rank, q.file, squares[q.rank][q.file], <<>>))
     ELSE {})

\* C16: no generator offers a castling move for a side whose right for that
\* wing is unset, or with a piece between king and rook, or with the king's
\* start, pass-through or destination square attacked; none is offered in the
\* initial position.
C16_NoCastlingWithoutItsConditions ==
    \A q \in Squares64 : \A m \in OfferedAt(q) :
        IsCastling(Board, m) =>
            /\ Board # NewBoard
            /\ CanCastle(Board, squares[q.rank][q.file].colour, WingOf(m))

\* C16 witness: the white rook has left h1, so the kingside right is gone
\* while the queenside right stands, and the king on e1 is offered a move
C16_Witness ==
    /\ sideToMove = "white"
    /\ ~castlingRights.whiteK
    /\ castlingRights.whiteQ
    /\ squares[0][4] = Piece("king", "white")
    /\ Len(LegalAt(Sq(0, 4))) > 0
    /\ ~CanCastle(Board, "white", "K")
    /\ ~CanCastle(Board, "white", "Q")

\* the home corner of the rook of a colour on a wing
RookCorner(colour, wing) == Sq(HomeRank(colour), IF wing = "K" THEN 7 ELSE 0)

\* whether the move m, made on the board b, is one of the moves that clear the
\* castling right of a colour on a wing: a move of that colour's king, a move
\* of a rook of that colour away from that corner, or a capture by the other
\* side of a piece standing on that corner
ClearsRight(b, m, colour, wing) ==
    LET piece == getSquare(b, m.fromRank, m.fromFile)
        target == getSquare(b, m.toRank, m.toFile)
        corner == RookCorner(colour, wing)
    IN \/ piece = Piece("king", colour)
       \/ /\ piece = Piece("rook", colour)
          /\ Sq(m.fromRank, m.fromFile) = corner
       \/ /\ piece.colour = Opposite(colour)
          /\ target.colour = colour
          /\ Sq(m.toRank, m.toFile) = corner

RightsAlong ==
    [i \in 1..(Len(history) + 1) |->
        IF i <= Len(history) THEN history[i].castlingRightsBefore ELSE castlingRights]

\* C18: a castling right that is false stays false through every later
\* makeMove, also when the king or the rook is back on its home square; a right
\* is true after a call that found it false only if the call was undoMove and
\* the move taken back is one that clears that right.
C18_RightsClearedForGood ==
    \A colour \in {"white", "black"} : \A wing \in CastleSides :
        /\ \A i \in 1..Len(history) :
              ~RightOf(RightsAlong[i], colour, wing) =>
                  ~RightOf(RightsAlong[i + 1], colour, wing)
        /\ (RightOf(castlingRights, colour, wing)
               /\ ~RightOf(before.castlingRights, colour, wing)) =>
              /\ lastCall.op = "undoMove"
              /\ Len(before.history) > 0
              /\ ClearsRight(Board, Undone.move, colour, wing)

\* C18 witness: the white rook went to g1 and has just come back to h1, the
\* king never left e1, and the kingside right is still false
C18_Witness ==
    /\ lastCall.op = "makeMove"
    /\ ~lastCall.threw
    /\ lastCall.move.toRank = 0 /\ lastCall.move.toFile = 7
    /\ squares[0][7] = Piece("rook", "white")
    /\ squares[0][4] = Piece("king", "white")
    /\ ~castlingRights.whiteK
    /\ castlingRights.whiteQ

\* the last call was makeMove with a move that carries a castle side, passed
\* for a piece of the side to move while a precondition of castling on that
\* wing fails
CastleWithoutItsConditions ==
    /\ lastCall.op = "makeMove"
    /\ lastCall.move.castle \in CastleSides
    /\ MovedByLastCall.colour = before.sideToMove
    /\ ~CanCastle(before, before.sideToMove, lastCall.move.castle)

\* C19: makeMove called with a move that carries a castle side fails with an
\* IllegalCastle error and changes nothing when the right is unset, a square
\* between king and rook is occupied, or a square the king crosses is attacked.
C19_IllegalCastleIsRefused ==
    CastleWithoutItsConditions =>
        /\ lastCall.threw
        /\ lastCall.err = "IllegalCastle"
        /\ Board = before

\* the last call was makeMove, it returned, and its move took a king and
\* carried a castle side
CastleWasMade ==
    /\ lastCall.op = "makeMove"
    /\ ~lastCall.threw
    /\ MovedByLastCall.type = "king"
    /\ lastCall.move.castle \in CastleSides

\* the file the rook of a wing castles to
RookCastleFile(wing) == IF wing = "K" THEN 5 ELSE 3

\* C20: once makeMove has applied a king move that carries a castle side, the
\* rook of the mover's home rank has gone from file 7 to file 5 (kingside) or
\* from file 0 to file 3 (queenside) and its corner is empty; undoMove then puts
\* the rook back on its corner and the king back on its source square, and the
\* two squares they leave are empty.
C20_CastleMovesTheRookAndBack ==
    CastleWasMade =>
        LET m == lastCall.move
            colour == MovedByLastCall.colour
            home == HomeRank(colour)
            corner == RookCorner(colour, m.castle)
            rookFile == RookCastleFile(m.castle)
            undone == undoMove(Board)
        IN /\ before.squares[home][corner.file] = Piece("rook", colour)
           /\ squares[home][rookFile] = Piece("rook", colour)
           /\ squares[home][corner.file] = NoPiece
           /\ squares[m.toRank][m.toFile] = MovedByLastCall
           /\ undone.squares[home][corner.file] = Piece("rook", colour)
           /\ undone.squares[m.fromRank][m.fromFile] = MovedByLastCall
           /\ undone.squares[home][rookFile] = NoPiece
           /\ undone.squares[m.toRank][m.toFile] = NoPiece

\* the direction in which the pawns of a colour advance
Forward(colour) == IF colour = "white" THEN 1 ELSE -1

\* the steps of the piece on q to its neighbouring squares, each flagged as an
\* en passant capture
EnPassantTries(q) ==
    {MoveOf(q.rank, q.file, q.rank + d[1], q.file + d[2], "none", "none", TRUE, TRUE) :
        d \in {e \in (-1..1) \X (-1..1) :
                  /\ e # <<0, 0>>
                  /\ inBounds(q.rank + e[1], q.file + e[2])}}

\* the pawns of the side to move
MoverPawns == {q \in MoverSquares : squares[q.rank][q.file].type = "pawn"}

\* C21: makeMove called with a pawn's step flagged enPassant fails when the
\* destination is occupied or the square on the destination file one rank
\* behind the destination is empty, holds a piece that is no pawn, or holds a
\* pawn of the mover's colour; else it removes the pawn on that square, puts the
\* mover on the empty destination and records that square as the capture
\* square, and undoMove puts the victim back there and empties the destination.
C21_EnPassantVictim ==
    \A q \in MoverPawns : \A m \in EnPassantTries(q) :
        LET made == makeMove(Board, m)
            behind == Sq(m.toRank - Forward(sideToMove), m.toFile)
            victim == squares[behind.rank][behind.file]
            fine == /\ squares[m.toRank][m.toFile] = NoPiece
                    /\ behind.rank \in Coord
                    /\ victim = Piece("pawn", Opposite(sideToMove))
            undone == undoMove(made.board)
        IN /\ made.threw = ~fine
           /\ fine =>
                /\ made.board.squares =
                      [[[squares EXCEPT ![q.rank][q.file] = NoPiece]
                                 EXCEPT ![behind.rank][behind.file] = NoPiece]
                                 EXCEPT ![m.toRank][m.toFile] = squares[q.rank][q.file]]
                /\ made.board.history[Len(history) + 1].capturedPiece = victim
                /\ made.board.history[Len(history) + 1].capturedSquare = behind
                /\ undone.squares[behind.rank][behind.file] = victim
                /\ undone.squares[m.toRank][m.toFile] = NoPiece
                /\ undone.squares = squares

\* C21 witness: the white pawn on e5 can take the pawn on d5 en passant, and
\* the same call aimed at f6, with no pawn on f5, fails
C21_Witness ==
    /\ sideToMove = "white"
    /\ squares[4][4] = Piece("pawn", "white")
    /\ squares[4][3] = Piece("pawn", "black")
    /\ enPassantTarget = Sq(5, 3)
    /\ squares[4][5] = NoPiece
    /\ squares[5][5] = NoPiece
    /\ ~makeMove(Board, MoveOf(4, 4, 5, 3, "none", "none", TRUE, TRUE)).threw
    /\ makeMove(Board, MoveOf(4, 4, 5, 5, "none", "none", TRUE, TRUE)).threw

\* C22: undoMove called on an empty history changes nothing: squares, side to
\* move, castling rights, en passant target, both clocks and the history are
\* as the call found them, and the call returns.
C22_UndoOnEmptyHistory ==
    (lastCall.op = "undoMove" /\ ~canUndo(before)) =>
        /\ Board = before
        /\ history = <<>>
        /\ ~lastCall.threw

\* C22 witness: undoMove has just been called on an empty history, on a board
\* that no longer holds the initial position
C22_Witness ==
    /\ lastCall.op = "undoMove"
    /\ before.history = <<>>
    /\ before.squares # setupInitialPosition
    /\ history = <<>>

\* the board after k calls of undoMove on b
RECURSIVE UndoTimes(_, _)
UndoTimes(b, k) == IF k = 0 THEN b ELSE UndoTimes(undoMove(b), k - 1)

\* the board S(i): a new board after the first i moves of the history were made
RECURSIVE Replayed(_)
Replayed(i) ==
    IF i = 0 THEN NewBoard
    ELSE makeMove(Replayed(i - 1), history[i].move).board

\* C23: with n moves made and not taken back, from the new board S(0) through
\* S(1) .. S(n), the k-th undoMove yields S(n - k) in squares, side to move,
\* castling rights, en passant target, clocks and history, for every k up to n,
\* and n calls give back S(0) with its empty history.
C23_UndoIsLastInFirstOut ==
    \A k \in 0..Len(history) :
        /\ UndoTimes(Board, k) = Replayed(Len(history) - k)
        /\ Len(UndoTimes(Board, k).history) = Len(history) - k

\* C23 witness: five moves were made, the last an en passant capture, and
\* that capture has just been taken back
C23_Witness ==
    /\ lastCall.op = "undoMove"
    /\ Len(history) = 4
    /\ Len(before.history) = 5
    /\ Undone.capturedSquare # NoSquare
    /\ UndoTimes(Board, 4) = NewBoard

\* C24: while getLegalMoves runs, the history is as deep as at entry or one
\* deeper: between two candidates the board is the board the call found, and
\* only between a speculative makeMove and its undoMove is one move outstanding.
C24_OneSpeculativeMoveAtMost ==
    /\ scan.pc # "idle" =>
          Len(history) \in {scan.entryDepth, scan.entryDepth + 1}
    /\ scan.pc = "loop" =>
          /\ Len(history) = scan.entryDepth
          /\ Board = before
    /\ scan.pc \in {"moved", "tested"} =>
          /\ Len(history) = scan.entryDepth + 1
          /\ history[Len(history)].move = scan.pseudo[scan.i]
          /\ SubSeq(history, 1, scan.entryDepth) = before.history

\* C24 witness: the call is at its third candidate, which stands applied on
\* the board, and the first two were each made and taken back
C24_Witness ==
    /\ scan.pc = "moved"
    /\ scan.i = 3
    /\ scan.entryDepth > 0
    /\ Len(history) = scan.entryDepth + 1

\* whether the elements of s from the i-th on are found, in their order, at
\* different places of t from the j-th on
RECURSIVE SubseqFrom(_, _, _, _)
SubseqFrom(s, t, i, j) ==
    IF i > Len(s) THEN TRUE
    ELSE IF j > Len(t) THEN FALSE
    ELSE IF s[i] = t[j] THEN SubseqFrom(s, t, i + 1, j + 1)
    ELSE SubseqFrom(s, t, i, j + 1)

IsSubsequence(s, t) == SubseqFrom(s, t, 1, 1)

NoDuplicates(s) == \A i, j \in 1..Len(s) : s[i] = s[j] => i = j

\* C25: the list that getLegalMoves returns for a square, and the list that
\* filter returns for the candidates of that square, is a subsequence of the
\* candidate list: only candidates, none of them twice, in the generator's order.
C25_LegalListIsASubsequence ==
    \A q \in MoverSquares :
        LET pseudo == PseudoAt(q)
            got == getLegalMoves(Board, q.rank, q.file)
            old == filter(Board, pseudo, sideToMove)
        IN /\ ~got.threw
           /\ IsSubsequence(got.moves, pseudo)
           /\ NoDuplicates(got.moves)
           /\ ~old.threw
           /\ IsSubsequence(old.moves, pseudo)
           /\ NoDuplicates(old.moves)

\* C25 witness: a piece of the side to move has at least two legal moves and
\* the filter drops a candidate that the generator put before the last of them
C25_Witness ==
    \E q \in MoverSquares :
        LET pseudo == PseudoAt(q)
            legal == LegalAt(q)
        IN /\ Len(legal) >= 2
           /\ Len(legal) < Len(pseudo)
           /\ \E i \in 1..Len(pseudo) :
                 /\ pseudo[i] \notin SeqRange(legal)
                 /\ \E j \in (i + 1)..Len(pseudo) : pseudo[j] = legal[Len(legal)]

Orthogonals == {<<1, 0>>, <<-1, 0>>, <<0, 1>>, <<0, -1>>}

Diagonals == {<<1, 1>>, <<1, -1>>, <<-1, 1>>, <<-1, -1>>}

\* the directions a rook, bishop or queen slides in
SlideDirections(type) ==
    CASE type = "rook" -> Orthogonals
      [] type = "bishop" -> Diagonals
      [] type = "queen" -> Orthogonals \cup Diagonals
      [] OTHER -> {}

Sliders == {q \in Squares64 : squares[q.rank][q.file].type \in {"rook", "bishop", "queen"}}

\* the square n steps from q in the direction d
Along(q, d, n) == Sq(q.rank + n * d[1], q.file + n * d[2])

\* the square n steps from q in the direction d is on the board and every
\* square before it is empty
InSight(q, d, n) ==
    /\ inBounds(Along(q, d, n).rank, Along(q, d, n).file)
    /\ \A k \in 1..(n - 1) : squares[Along(q, d, k).rank][Along(q, d, k).file] = NoPiece

\* the move of the piece on q to the square t, marked as a capture exactly
\* when t holds a piece
MoveTo(q, t) ==
    MoveOf(q.rank, q.file, t.rank, t.file, "none", "none", FALSE,
           squares[t.rank][t.file] # NoPiece)

\* the moves of a sliding piece on q by the rule: in each direction the empty
\* squares up to the first occupied one, and that one if it holds an enemy
SlidesByRule(q) ==
    {MoveTo(q, Along(q, x[1], x[2])) :
        x \in {y \in SlideDirections(squares[q.rank][q.file].type) \X (1..7) :
                  /\ InSight(q, y[1], y[2])
                  /\ squares[Along(q, y[1], y[2]).rank][Along(q, y[1], y[2]).file].colour
                        # squares[q.rank][q.file].colour}}

\* C26: for a rook, bishop or queen each generator produces, once each, exactly
\* the moves to the empty squares before the first occupied square of each of
\* its directions and the capture of that first occupied square when it holds
\* an enemy piece; nothing beyond it and no square holding a friendly piece.
C26_SlidingMovesStopAtTheFirstPiece ==
    \A q \in Sliders :
        LET piece == squares[q.rank][q.file]
            perSquare == PseudoAt(q)
            wholeSide == addPieceMoves(Board, q.rank, q.file, piece, <<>>)
        IN /\ SeqRange(perSquare) = SlidesByRule(q)
           /\ NoDuplicates(perSquare)
           /\ SeqRange(wholeSide) = SlidesByRule(q)
           /\ NoDuplicates(wholeSide)

\* C26 witness: the white queen on h5 slides over empty squares, is stopped
\* by her own pawn on h2 and can take the pawn on h7, behind which the rook on
\* h8 is out of reach
C26_Witness ==
    /\ squares[4][7] = Piece("queen", "white")
    /\ squares[6][7] = Piece("pawn", "black")
    /\ squares[7][7] = Piece("rook", "black")
    /\ squares[1][7] = Piece("pawn", "white")
    /\ CaptureMove(4, 7, 6, 7) \in SeqRange(PseudoAt(Sq(4, 7)))
    /\ PlainMove(4, 7, 2, 7) \in SeqRange(PseudoAt(Sq(4, 7)))
    /\ \A m \in SeqRange(PseudoAt(Sq(4, 7))) :
          ~(m.toFile = 7 /\ m.toRank \in {1, 7})

Pawns == {q \in Squares64 : squares[q.rank][q.file].type = "pawn"}

\* the rank the pawns of a colour start on
StartRank(colour) == IF colour = "white" THEN 1 ELSE 6

\* whether the square n ranks ahead of the pawn on q is on the board and empty
AheadIsEmpty(q, n) ==
    LET r == q.rank + n * Forward(squares[q.rank][q.file].colour) IN
    r \in Coord /\ squares[r][q.file] = NoPiece

\* the advance of the pawn on q by n ranks
Advance(q, n) ==
    PlainMove(q.rank, q.file, q.rank + n * Forward(squares[q.rank][q.file].colour), q.file)

\* the moves generated for q that stay on the file of q
OnOwnFile(q) == {m \in SeqRange(PseudoAt(q)) : m.toFile = q.file}

\* C27: the generator gives a pawn its one-square advance exactly when the
\* square ahead is empty, and its two-square advance exactly when the pawn
\* stands on its starting rank and the two squares ahead are both empty; it
\* gives no other move along the file, so none onto or over an occupied square.
C27_PawnAdvances ==
    \A q \in Pawns :
        LET colour == squares[q.rank][q.file].colour IN
        /\ Advance(q, 1) \in OnOwnFile(q) <=> AheadIsEmpty(q, 1)
        /\ Advance(q, 2) \in OnOwnFile(q) <=>
              (q.rank = StartRank(colour) /\ AheadIsEmpty(q, 1) /\ AheadIsEmpty(q, 2))
        /\ OnOwnFile(q) \subseteq {Advance(q, 1), Advance(q, 2)}
        /\ NoDuplicates(PseudoAt(q))

\* C27 witness: the pawn on f2 has the knight on f3 before it and f4 free, so
\* it has no advance; the pawn on e7 has e6 free and the white pawn on e5 beyond,
\* so it has the one-square advance only; the pawn on d2 has both advances
C27_Witness ==
    /\ squares[1][5] = Piece("pawn", "white")
    /\ squares[2][5] = Piece("knight", "white")
    /\ squares[3][5] = NoPiece
    /\ OnOwnFile(Sq(1, 5)) = {}
    /\ squares[6][4] = Piece("pawn", "black")
    /\ squares[4][4] = Piece("pawn", "white")
    /\ OnOwnFile(Sq(6, 4)) = {Advance(Sq(6, 4), 1)}
    /\ OnOwnFile(Sq(1, 3)) = {Advance(Sq(1, 3), 1), Advance(Sq(1, 3), 2)}

KnightOffsets ==
    {<<1, 2>>, <<2, 1>>, <<2, -1>>, <<1, -2>>, <<-1, -2>>, <<-2, -1>>, <<-2, 1>>, <<-1, 2>>}

KingOffsets == ((-1..1) \X (-1..1)) \ {<<0, 0>>}

\* the 8 fixed offsets of a knight or a king
JumpOffsets(type) ==
    CASE type = "knight" -> KnightOffsets
      [] type = "king" -> KingOffsets
      [] OTHER -> {}

Jumpers == {q \in Squares64 : squares[q.rank][q.file].type \in {"knight", "king"}}

\* the moves of a knight or king on q by the rule: to every square at one of
\* its offsets that is on the board and holds no friendly piece
JumpsByRule(q) ==
    {MoveTo(q, Along(q, d, 1)) :
        d \in {e \in JumpOffsets(squares[q.rank][q.file].type) :
                  /\ inBounds(Along(q, e, 1).rank, Along(q, e, 1).file)
                  /\ squares[Along(q, e, 1).rank][Along(q, e, 1).file].colour
                        # squares[q.rank][q.file].colour}}

\* C28: for a knight and for a king each generator produces, once each,
\* exactly the moves to the squares at the 8 offsets that are on the board and
\* hold no friendly piece, and marks a move as a capture exactly when its
\* destination holds an enemy piece.
C28_KnightAndKingMoves ==
    \A q \in Jumpers :
        LET piece == squares[q.rank][q.file]
            perSquare == PseudoAt(q)
            wholeSide == addPieceMoves(Board, q.rank, q.file, piece, <<>>)
        IN /\ SeqRange(perSquare) = JumpsByRule(q)
           /\ NoDuplicates(perSquare)
           /\ \A m \in SeqRange(perSquare) :
                 m.isCapture <=> squares[m.toRank][m.toFile].colour = Opposite(piece.colour)
           /\ SeqRange(wholeSide) = JumpsByRule(q)
           /\ NoDuplicates(wholeSide)

\* C28 witness: the black king on e8 can take the bishop on f7, and the white
\* knight on b1 has its moves to a3 and c3 and none to d2, where its own pawn
\* stands
C28_Witness ==
    /\ squares[7][4] = Piece("king", "black")
    /\ squares[6][5] = Piece("bishop", "white")
    /\ CaptureMove(7, 4, 6, 5) \in SeqRange(PseudoAt(Sq(7, 4)))
    /\ squares[0][1] = Piece("knight", "white")
    /\ squares[1][3] = Piece("pawn", "white")
    /\ Len(PseudoAt(Sq(0, 1))) = 2

\* the first occupied square met from q in the direction d holds a piece of
\* the colour and of one of the types
FirstOccupantIs(q, d, colour, types) ==
    \E n \in 1..7 :
        /\ InSight(q, d, n)
        /\ squares[Along(q, d, n).rank][Along(q, d, n).file].colour = colour
        /\ squares[Along(q, d, n).rank][Along(q, d, n).file].type \in types

AttackedOnALine(q, colour) ==
    \E d \in Orthogonals : FirstOccupantIs(q, d, colour, {"rook", "queen"})

AttackedOnADiagonal(q, colour) ==
    \E d \in Diagonals : FirstOccupantIs(q, d, colour, {"bishop", "queen"})

\* C29: a square is reported attacked along a rank or file exactly when the
\* first occupied square in one of the 4 orthogonal directions holds a rook or
\* queen of the attacking colour, and along a diagonal exactly when the first
\* occupied square in one of the 4 diagonal directions holds a bishop or queen
\* of the attacking colour; any other first occupant blocks the ray.
C29_SlidingAttacks ==
    \A q \in Squares64 : \A colour \in {"white", "black"} :
        /\ rayAttacked(Board, q.rank, q.file, colour, rookDirs, {"rook", "queen"})
              <=> AttackedOnALine(q, colour)
        /\ rayAttacked(Board, q.rank, q.file, colour, bishopDirs, {"bishop", "queen"})
              <=> AttackedOnADiagonal(q, colour)
        /\ isAttackedBySlidingPieces(Board, q.rank, q.file, colour)
              <=> (AttackedOnALine(q, colour) \/ AttackedOnADiagonal(q, colour))

\* C29 witness: the white queen on h5 attacks e8 along the diagonal and h7
\* along the file, while the pawn on h7 blocks her way to h8
C29_Witness ==
    /\ squares[4][7] = Piece("queen", "white")
    /\ squares[6][7] = Piece("pawn", "black")
    /\ squares[7][4] = Piece("king", "black")
    /\ rayAttacked(Board, 7, 4, "white", bishopDirs, {"bishop", "queen"})
    /\ rayAttacked(Board, 6, 7, "white", rookDirs, {"rook", "queen"})
    /\ ~isAttackedBySlidingPieces(Board, 7, 7, "white")

\* the (from, to) pairs of a list of moves
FromTo(moves) ==
    {<<moves[i].fromRank, moves[i].fromFile, moves[i].toRank, moves[i].toFile>> :
        i \in 1..Len(moves)}

\* the pairs the whole-side generator produces for the side to move
WholeSidePairs == FromTo(generatorPseudoLegalMoves(Board))

\* the pairs the per-square generator produces over the squares of the side to move
PerSquarePairs == UNION {FromTo(PseudoAt(q)) : q \in MoverSquares}

\* C30: in every position the whole-side generator and the per-square
\* generator produce the same set of (from, to) moves for the side to move,
\* two-square pawn advances and en passant captures included.
C30_GeneratorsAgree == WholeSidePairs = PerSquarePairs

\* the piece type standing on a file of a back rank in the standard position
StandardBackRank(f) ==
    CASE f \in {0, 7} -> "rook"
      [] f \in {1, 6} -> "knight"
      [] f \in {2, 5} -> "bishop"
      [] f = 3 -> "queen"
      [] f = 4 -> "king"

\* C31: a newly constructed board is the standard initial position: white
\* pawns on rank 1, black pawns on rank 6, the back ranks rook, knight, bishop,
\* queen, king, bishop, knight, rook on files 0..7 of rank 0 (white) and rank 7
\* (black), ranks 2..5 empty, white to move, all four castling rights set, no
\* en passant target, half-move clock 0, full-move number 1, an empty history.
C31_NewBoardIsTheStandardPosition ==
    lastCall.op = "new" =>
        /\ \A f \in Coord :
              /\ squares[1][f] = Piece("pawn", "white")
              /\ squares[6][f] = Piece("pawn", "black")
              /\ squares[0][f] = Piece(StandardBackRank(f), "white")
              /\ squares[7][f] = Piece(StandardBackRank(f), "black")
              /\ \A r \in 2..5 : squares[r][f] = NoPiece
        /\ sideToMove = "white"
        /\ castlingRights.whiteK /\ castlingRights.whiteQ
        /\ castlingRights.blackK /\ castlingRights.blackQ
        /\ enPassantTarget = NoSquare
        /\ halfMoveClock = 0
        /\ fullMoveNumber = 1
        /\ history = <<>>
        /\ ~canUndo(Board)

\* C31 witness: the board as its constructor leaves it, before any call
C31_Witness ==
    /\ lastCall.op = "new"
    /\ before = Board
    /\ Cardinality({q \in Squares64 : squares[q.rank][q.file] # NoPiece}) = 32

\* C32: for every rank r and file f in 0..7 the Square returned by
\* getSquare(r, f) has its rank field equal to r and its file field equal to f,
\* so that its coord names the square it is stored at.
C32_SquareKnowsItsPlace ==
    \A r \in Coord : \A f \in Coord :
        LET square == squareObject(Board, r, f) IN
        /\ square.rank = r
        /\ square.file = f
        /\ coord(square) = coord(Square(f, r, NoPiece))

\* C33: getLegalMoves(r, f) returns the empty list when the square is empty or
\* holds a piece of the side that is not to move; every move it returns starts
\* on (r, f), which holds a piece of the side to move, and makeMove accepts it
\* in that position without an error.
C33_LegalMovesAreTheMoversOwn ==
    \A q \in Squares64 :
        LET got == getLegalMoves(Board, q.rank, q.file) IN
        /\ ~got.threw
        /\ squares[q.rank][q.file].colour # sideToMove => got.moves = <<>>
        /\ \A m \in SeqRange(got.moves) :
              /\ m.fromRank = q.rank /\ m.fromFile = q.file
              /\ squares[m.fromRank][m.fromFile] # NoPiece
              /\ squares[m.fromRank][m.fromFile].colour = sideToMove
              /\ ~makeMove(Board, m).threw

\* C33 witness: black is to move after a white move; a white piece that has
\* candidate moves is given none, a black piece has a legal move, and an empty
\* square has none
C33_Witness ==
    /\ lastCall.op = "makeMove"
    /\ sideToMove = "black"
    /\ \E q \in Squares64 :
          /\ squares[q.rank][q.file].colour = "white"
          /\ PseudoAt(q) # <<>>
          /\ LegalAt(q) = <<>>
    /\ \E q \in MoverSquares : LegalAt(q) # <<>>
    /\ \E q \in Squares64 : squares[q.rank][q.file] = NoPiece /\ LegalAt(q) = <<>>

\* some piece of the colour has a pseudo-legal move, as getPseudoLegalMoves
\* produces it for the piece's square, onto the square t
HasMoveOnto(colour, t) ==
    \E q \in Squares64 :
        /\ squares[q.rank][q.file].colour = colour
        /\ \E m \in SeqRange(PseudoAt(q)) : m.toRank = t.rank /\ m.toFile = t.file

KingsOf(colour) == {q \in Squares64 : squares[q.rank][q.file] = Piece("king", colour)}

\* C34: the attack detector agrees with the move generator: isKingInCheck(c)
\* is true exactly when some piece of the opposing colour has a pseudo-legal
\* move onto the square of c's king.  The same agreement holds on the square of
\* every piece of c, which is where the pawn, knight and king tests are met.
C34_CheckIsAMoveOntoTheKing ==
    \A c \in {"white", "black"} :
        /\ isKingInCheck(Board, c) <=> \E k \in KingsOf(c) : HasMoveOnto(Opposite(c), k)
        /\ \A t \in Squares64 :
              squares[t.rank][t.file].colour = c =>
                 (isSquareAttacked(Board, t.rank, t.file, Opposite(c))
                     <=> HasMoveOnto(Opposite(c), t))

\* C34 witness: the white bishop has taken on f7 and gives check, the black
\* king attacks the bishop in turn, and the pawn on e4 is attacked by the
\* knight on f6
C34_Witness ==
    /\ squares[6][5] = Piece("bishop", "white")
    /\ isKingInCheck(Board, "black")
    /\ ~isKingInCheck(Board, "white")
    /\ isAttackedByKing(Board, 6, 5, "black")
    /\ squares[5][5] = Piece("knight", "black")
    /\ squares[3][4] = Piece("pawn", "white")
    /\ isAttackedByKnight(Board, 3, 4, "black")

\* C35: in every state reached from the initial position by moves that
\* getLegalMoves returned, and undos, each colour has exactly one king on the
\* board: no legal move captures a king, and findKing finds the king of either
\* colour, so that isKingInCheck never takes its no-king branch.
C35_OneKingEach ==
    /\ \A c \in {"white", "black"} :
          /\ Cardinality(KingsOf(c)) = 1
          /\ findKing(Board, c) \in KingsOf(c)
    /\ \A q \in MoverSquares : \A m \in SeqRange(LegalAt(q)) :
          squares[m.toRank][m.toFile].type # "king"
    /\ (lastCall.op = "makeMove" /\ ~lastCall.threw) =>
          before.squares[lastCall.move.toRank][lastCall.move.toFile].type # "king"

\* C35 witness: the side to move stands in check after the move just made and
\* has a candidate move that would leave its king in check, to be taken next,
\* which getLegalMoves does not return
C35_Witness ==
    /\ lastCall.op = "makeMove"
    /\ isKingInCheck(Board, sideToMove)
    /\ \E q \in MoverSquares : \E m \in SeqRange(PseudoAt(q)) :
          /\ m \notin SeqRange(LegalAt(q))
          /\ isKingInCheck(makeMove(Board, m).board, sideToMove)

\* C36: in every state reached from the initial position by moves that
\* getLegalMoves returned, and undos, whenever a castling right is set the king
\* of that colour stands on file 4 of its home rank and the rook of that colour
\* stands on the home corner of that wing.
C36_RightsMeanKingAndRookAtHome ==
    \A colour \in {"white", "black"} : \A wing \in CastleSides :
        RightOf(castlingRights, colour, wing) =>
            /\ squares[HomeRank(colour)][4] = Piece("king", colour)
            /\ squares[RookCorner(colour, wing).rank][RookCorner(colour, wing).file]
                  = Piece("rook", colour)

\* C36 witness: the white rook has left a1 and the queenside right is gone,
\* while the kingside right is still set with the king on e1 and the rook on h1
C36_Witness ==
    /\ lastCall.op = "makeMove"
    /\ squares[0][0] = NoPiece
    /\ squares[2][0] = Piece("rook", "white")
    /\ ~castlingRights.whiteQ
    /\ castlingRights.whiteK
    /\ squares[0][4] = Piece("king", "white")
    /\ squares[0][7] = Piece("rook", "white")

\* C37: in every state reached from a new board by successful makeMove and
\* undoMove calls the bookkeeping agrees with the depth d of the history:
\* canUndo is true exactly when d > 0, white is to move exactly when d is even,
\* the full-move number is 1 + d \div 2, and the half-move clock is in 0..d.
C37_BookkeepingFollowsTheDepth ==
    LET d == Len(history) IN
    /\ canUndo(Board) <=> d > 0
    /\ sideToMove = "white" <=> d % 2 = 0
    /\ sideToMove \in {"white", "black"}
    /\ fullMoveNumber = 1 + (d \div 2)
    /\ halfMoveClock \in 0..d

\* C37 witness: an undo has taken the history back to a depth of three moves,
\* black is to move in move 2, and the clock counts a move that was neither a
\* pawn move nor a capture
C37_Witness ==
    /\ lastCall.op = "undoMove"
    /\ Len(history) = 3
    /\ Len(before.history) = 4
    /\ sideToMove = "black"
    /\ fullMoveNumber = 2
    /\ before.fullMoveNumber = 3
    /\ halfMoveClock \in 1..2

\* C38: in every state reached from the initial position by moves that
\* getLegalMoves returned, and undos, an en passant target that is set lies on
\* rank 2 when black is to move and on rank 5 when white is to move, the target
\* square is empty, and the square one rank beyond it (rank 3 or rank 4 of the
\* same file) holds a pawn of the side that is not to move.
C38_EnPassantTargetIsBehindAPawn ==
    enPassantTarget # NoSquare =>
        /\ enPassantTarget.file \in Coord
        /\ enPassantTarget.rank = (IF sideToMove = "black" THEN 2 ELSE 5)
        /\ squares[enPassantTarget.rank][enPassantTarget.file] = NoPiece
        /\ squares[IF sideToMove = "black" THEN 3 ELSE 4][enPassantTarget.file]
              = Piece("pawn", Opposite(sideToMove))

\* C38 witness: an undo has brought back the position after d7-d5 with its
\* target on d6, where the white pawn on e5 can take en passant
C38_Witness ==
    /\ lastCall.op = "undoMove"
    /\ before.enPassantTarget = NoSquare
    /\ enPassantTarget = Sq(5, 3)
    /\ sideToMove = "white"
    /\ squares[4][3] = Piece("pawn", "black")
    /\ squares[4][4] = Piece("pawn", "white")
    /\ \E m \in SeqRange(LegalAt(Sq(4, 4))) : m.enPassant

====
